---- MODULE Spec2Model ----
(***************************************************************************)
(* Model of the AMDADOS data-assimilation driver (ScenarioSimulation3):    *)
(* a lattice of sub-domains, each a two-layer cell (fine / low), advanced  *)
(* by the stencil loop of RunDataAssimilation with one routine call per    *)
(* sub-domain and logical step, and an observer that streams snapshots.    *)
(*                                                                         *)
(* Field values are doubles in the program. Here they are integers; the    *)
(* numerical kernels (LU solve, Kalman update) are deterministic functions *)
(* of everything the kernels read, with results in Vals (negative values   *)
(* included), so that every data dependency of the routines is kept.       *)
(***************************************************************************)
EXTENDS Integers, Sequences, FiniteSets, Bags, TLC

\* ------------------------------------------------------------------------
\* Bounds of the model.
\* ------------------------------------------------------------------------
\* num_subdomains_x, num_subdomains_y of the lattice.
NumX == 2
NumY == 2
\* Size of the low-resolution layer of a sub-domain.
CoarseX == 2
CoarseY == 2
\* Largest Nt, schwarz_num_iters and write_num_fields of the full model.
MaxNt == 3
MaxNschwarz == 2
MaxNwrite == 2
\* Number of distinct seeds of the random generator / observation tables.
NumSeeds == 2
NumObsTables == 1
\* Ranges of the configurations the observer's time filter is run over.
SchedMaxNt == 9
SchedMaxNschwarz == 3
SchedMaxNwrite == 10

\* ------------------------------------------------------------------------
\* Geometry of a sub-domain cell.
\* ------------------------------------------------------------------------
LayerFine == 0
LayerLow == 1
Layers == {LayerFine, LayerLow}
RefineFactor == 2

\* Unit of the field values: averages over RefineFactor^2 children are exact.
Unit == RefineFactor * RefineFactor
Vals == {0 - Unit, 0, Unit}

Sides == {"Up", "Down", "Left", "Right"}

Idx == (0 .. NumX - 1) \X (0 .. NumY - 1)

getLayerSize(layer) ==
    IF layer = LayerFine
    THEN [x |-> CoarseX * RefineFactor, y |-> CoarseY * RefineFactor]
    ELSE [x |-> CoarseX, y |-> CoarseY]

Nodes(layer) ==
    (0 .. getLayerSize(layer).x - 1) \X (0 .. getLayerSize(layer).y - 1)

ExtNodes(layer) ==
    (0 .. getLayerSize(layer).x + 1) \X (0 .. getLayerSize(layer).y + 1)

\* A cell with all nodes of all layers equal to zero.
ZeroCell(layer) ==
    [active |-> layer, data |-> [l \in Layers |-> [p \in Nodes(l) |-> 0]]]

setActiveLayer(cell, layer) == [active |-> layer, data |-> cell.data]

\* The cell with the nodes of one layer replaced.
WithLayer(cell, layer, d) ==
    [active |-> cell.active,
     data |-> [l \in Layers |-> IF l = layer THEN d ELSE cell.data[l]]]

\* Border strip of one layer; Left/Right strips are indexed by y, Up/Down by x.
getBoundary(cell, layer, side) ==
    LET sz == getLayerSize(layer)
        d == cell.data[layer]
    IN  CASE side = "Left"  -> [k \in 0 .. sz.y - 1 |-> d[<<0, k>>]]
          [] side = "Right" -> [k \in 0 .. sz.y - 1 |-> d[<<sz.x - 1, k>>]]
          [] side = "Down"  -> [k \in 0 .. sz.x - 1 |-> d[<<k, 0>>]]
          [] side = "Up"    -> [k \in 0 .. sz.x - 1 |-> d[<<k, sz.y - 1>>]]

\* Writes a strip into the border of the active layer.
setBoundary(cell, side, strip) ==
    LET layer == cell.active
        sz == getLayerSize(layer)
        OnSide(p) ==
            CASE side = "Left"  -> p[1] = 0
              [] side = "Right" -> p[1] = sz.x - 1
              [] side = "Down"  -> p[2] = 0
              [] side = "Up"    -> p[2] = sz.y - 1
        At(p) == IF side \in {"Left", "Right"} THEN strip[p[2]] ELSE strip[p[1]]
    IN  WithLayer(cell, layer,
            [p \in Nodes(layer) |-> IF OnSide(p) THEN At(p) ELSE cell.data[layer][p]])

ZeroStrip(n) == [k \in 0 .. n - 1 |-> 0]

\* refine: the next finer layer gets the value of the parent node; the finer
\* layer becomes the active one.
refine(cell) ==
    LET src == cell.active
        dst == src - 1
    IN  setActiveLayer(
            WithLayer(cell, dst,
                [p \in Nodes(dst) |->
                    cell.data[src][<<p[1] \div RefineFactor, p[2] \div RefineFactor>>]]),
            dst)

\* coarsen: a node of the next coarser layer gets the average of its children;
\* the coarser layer becomes the active one.
coarsen(cell) ==
    LET src == cell.active
        dst == src + 1
        Kids == (0 .. RefineFactor - 1) \X (0 .. RefineFactor - 1)
        RECURSIVE SumOver(_, _)
        SumOver(S, p) ==
            IF S = {} THEN 0
            ELSE LET k == CHOOSE k \in S : TRUE
                 IN  cell.data[src][<<p[1] * RefineFactor + k[1],
                                      p[2] * RefineFactor + k[2]>>]
                     + SumOver(S \ {k}, p)
    IN  setActiveLayer(
            WithLayer(cell, dst,
                [p \in Nodes(dst) |-> SumOver(Kids, p) \div (RefineFactor * RefineFactor)]),
            dst)

ClampNonNegative_Skip(cell) == cell

\* forAllActiveNodes with the lambda "if (v < 0.0) v = 0.0".
ClampNonNegative(cell) ==
    WithLayer(cell, cell.active,
        [p \in Nodes(cell.active) |->
            IF cell.data[cell.active][p] < 0 THEN 0 ELSE cell.data[cell.active][p]])

\* ------------------------------------------------------------------------
\* Program state.
\* ------------------------------------------------------------------------
VARIABLES
    conf,           \* read-only configuration: Nt, Nschwarz, Nwrite
    sensors,        \* Grid<point_array_t,2>: sensor list of every sub-domain
    observations,   \* Grid<Matrix,2>: Nt x Nsensors measurements
    rng_seed,       \* what RandomSeed() yields during this run
    contexts,       \* context_domain_t
    state_field,    \* the grid the stencil reads at the current step
    stencil_buf,    \* the grid the stencil stores the returned cells in
    temp_field,     \* the next_state grid the routines write to
    t,              \* logical time of the stencil loop
    phase,          \* "update", "observe", "closing", "done"
    done,           \* sub-domains whose task of the current phase completed
    stamp,          \* history: logical time of the last routine call per idx
    calls,          \* history: routine calls and prior updates so far, per idx; last prior field
    start_ctx,      \* history: the contexts at the start of the current step
    snaps,          \* history: logical times the observer was triggered at
    written,        \* history: time indices found in the records written
    out,            \* bag of records appended to the result stream
    stream_open,    \* TRUE until file_manager.close(out_stream)
    wr,             \* position of the writer of every sub-domain
    lock,           \* the sub-domain inside out_stream.atomic, or "none"
    tail,           \* floats in the stream after the last complete record
    pc,             \* position of ScenarioSimulation3
    raw_conf,       \* the parameters read from the configuration file
    params,         \* the dependent parameters: dt and Nt
    effects,        \* history: what the start-up has done so far
    loader,         \* ReadAnalyticSolution: the file, the stream and the locals
    kf,             \* a KalmanFilter object with its x and P, and a reference run
    euler,          \* TestEulerFiniteDifference: state, state2 and the iteration
    schwarz,        \* SchwarzUpdate: curr_domain, next_domain, flow and the borders
    bmatrix         \* InverseModelMatrix: parameters, flow and an interior row of B

vars == <<conf, sensors, observations, rng_seed, contexts, state_field,
          stencil_buf, temp_field, t, phase, done, stamp, calls, start_ctx,
          snaps, written, out, stream_open, wr, lock, tail,
          pc, raw_conf, params, effects, loader, kf, euler,
          schwarz, bmatrix>>

writer_vars == <<wr, lock, tail>>

startup_vars == <<pc, raw_conf, params, effects>>

\* The routines that are run on their own.
unit_vars == <<loader, kf, euler, schwarz, bmatrix>>

\* A routine that is not running.
Idle == [status |-> "idle"]

\* ------------------------------------------------------------------------
\* Helpers of the routines.
\* ------------------------------------------------------------------------
sub2ind(x, y, layer_size) == x * (layer_size.y + 2) + y

RECURSIVE SumSeq(_)
SumSeq(s) == IF Len(s) = 0 THEN 0 ELSE Head(s) + SumSeq(Tail(s))

\* Reduction of a kernel result into Vals.
Quant(n) == Unit * ((n % 3) - 1)

\* Flow: (-max_vx*sin(0.1*t/Nt - pi), -max_vy*sin(0.2*t/Nt - pi)), which for
\* 0 <= t < Nt is (max_vx*sin(0.1*t/Nt), max_vy*sin(0.2*t/Nt)): zero at t = 0
\* and growing with t; linearised and scaled to integers.
Flow(c, discrete_time) == <<discrete_time, 2 * discrete_time>>

InverseModelMatrix_NoDivisor(c, flow, layer_size, dt_divisor) ==
    [vx |-> flow[1], vy |-> flow[2], div |-> 1, size |-> layer_size]

\* B is determined by the flow, the layer size and the effective time step
\* dt / (dt_divisor > 0 ? dt_divisor : 1); it is kept by these parameters.
InverseModelMatrix(c, flow, layer_size, dt_divisor) ==
    [vx |-> flow[1], vy |-> flow[2],
     div |-> IF dt_divisor > 0 THEN dt_divisor ELSE 1,
     size |-> layer_size]

LUSolve_NoIdentityRows(B, f) ==
    [p \in DOMAIN f |-> Quant(f[p] + B.vx + B.vy + B.div + 1)]

\* LU.Init(B); LU.Solve(x, x_old): x = B^{-1} x_old. Halo rows of B are identity
\* rows, so halo entries pass through; an interior entry depends on the
\* five-point neighbourhood and on B, and a zero neighbourhood gives zero.
LUSolve(B, f) ==
    [p \in DOMAIN f |->
        IF p[1] \in 1 .. B.size.x /\ p[2] \in 1 .. B.size.y
        THEN LET nb == {p, <<p[1] - 1, p[2]>>, <<p[1] + 1, p[2]>>,
                        <<p[1], p[2] - 1>>, <<p[1], p[2] + 1>>}
             IN  IF \A q \in nb : f[q] = 0 THEN 0
                 ELSE Quant(f[p] + f[<<p[1] - 1, p[2]>>] + f[<<p[1] + 1, p[2]>>]
                            + f[<<p[1], p[2] - 1>>] + f[<<p[1], p[2] + 1>>]
                            + B.vx + B.vy + B.div)
        ELSE f[p]]

\* ComputeQ / ComputeR: diagonal 1 + model_noise * uniform[0,1), "always >= 1".
ComputeQ(c, idx, discrete_time) ==
    1 + ((rng_seed + discrete_time + idx[1] + idx[2]) % 2)

ComputeR(c, idx, discrete_time) ==
    1 + ((rng_seed + discrete_time + idx[1]) % 2)

ComputeH_NoOffset(sens, layer_size) ==
    [k \in 1 .. Len(sens) |->
        [c \in 0 .. (layer_size.x + 2) * (layer_size.y + 2) - 1 |->
            IF c = sub2ind(sens[k][1], sens[k][2], layer_size) THEN 1 ELSE 0]]

\* ComputeH: row k has a single 1 at sub2ind(x_k + 1, y_k + 1).
ComputeH(sens, layer_size) ==
    [k \in 1 .. Len(sens) |->
        [c \in 0 .. (layer_size.x + 2) * (layer_size.y + 2) - 1 |->
            IF c = sub2ind(sens[k][1] + 1, sens[k][2] + 1, layer_size)
            THEN 1 ELSE 0]]

\* InitialCovar: covariance of the initial state, kept by its variance.
InitialCovar(c) == 1

\* GetObservations: z(i) = observations(timestep, i).
GetObservations(obs, timestep, n) == [i \in 1 .. n |-> obs[<<timestep, i>>]]

\* H * x for the 0/1 matrix H: the field entries at the sensor nodes.
HTimes(H, f, layer_size) ==
    [k \in 1 .. Len(H) |->
        LET p == CHOOSE p \in DOMAIN f : H[k][sub2ind(p[1], p[2], layer_size)] = 1
        IN  f[p]]

\* KalmanFilter::PropagateStateInverse: x = B^{-1} x; P = A P A^t + Q.
PropagateStateInverse(f, P, B, Q) == [x |-> LUSolve(B, f), P |-> P + Q]

\* KalmanFilter::SolveFilter: y = z - H x; S = H P H^t + R;
\* x = x + P H^t S^{-1} y; P = P - P H^t S^{-1} H P. The gain matrix is dense,
\* so every entry of x (halo included) moves when y is not zero.
SolveFilter(f, P, H, R, z, layer_size) ==
    LET Hx == HTimes(H, f, layer_size)
        y == [k \in 1 .. Len(H) |-> z[k] - Hx[k]]
        S == P + R
    IN  [x |-> IF \A k \in 1 .. Len(H) : y[k] = 0 THEN f
               ELSE [p \in DOMAIN f |->
                        Quant(f[p] + SumSeq(y) + P + R + p[1] + p[2])],
         P |-> (P * R) \div S]

\* ------------------------------------------------------------------------
\* Exchange between the grid cells and the extended working matrix.
\* ------------------------------------------------------------------------
ApplyBoundaryCondition_NoUp(state, idx) ==
    LET sz == getLayerSize(state[idx].active)
        c1 == IF idx[1] = 0
              THEN setBoundary(state[idx], "Left", ZeroStrip(sz.y)) ELSE state[idx]
        c2 == IF idx[1] = NumX - 1
              THEN setBoundary(c1, "Right", ZeroStrip(sz.y)) ELSE c1
        c3 == IF idx[2] = 0
              THEN setBoundary(c2, "Down", ZeroStrip(sz.x)) ELSE c2
    IN  [state EXCEPT ![idx] = c3]

\* ApplyBoundaryCondition: zero strips on the sides of sub-domain idx that lie
\* on the outer border of the whole domain (active layer).
ApplyBoundaryCondition(state, idx) ==
    LET sz == getLayerSize(state[idx].active)
        c1 == IF idx[1] = 0
              THEN setBoundary(state[idx], "Left", ZeroStrip(sz.y)) ELSE state[idx]
        c2 == IF idx[1] = NumX - 1
              THEN setBoundary(c1, "Right", ZeroStrip(sz.y)) ELSE c1
        c3 == IF idx[2] = 0
              THEN setBoundary(c2, "Down", ZeroStrip(sz.x)) ELSE c2
        c4 == IF idx[2] = NumY - 1
              THEN setBoundary(c3, "Up", ZeroStrip(sz.x)) ELSE c3
    IN  [state EXCEPT ![idx] = c4]

\* The side of the peer that faces a side of the reader.
Facing == [Left |-> "Right", Right |-> "Left", Down |-> "Up", Up |-> "Down"]

\* The extended matrix of sub-domain idx: interior from the active layer of
\* dom[idx], zero corners, each halo strip from the border `facing` it of the
\* peer in `peers` (at the layer of the reader) or, on an outer side, from the
\* interior line next to the border line.
AssembleField(dom, peers, facing, idx) ==
    LET layer_no == dom[idx].active
        Sx == getLayerSize(layer_no).x
        Sy == getLayerSize(layer_no).y
        own == dom[idx].data[layer_no]
        Inner(x, y) == own[<<x - 1, y - 1>>]
    IN  [p \in ExtNodes(layer_no) |->
            LET x == p[1]
                y == p[2]
            IN  CASE x \in {0, Sx + 1} /\ y \in {0, Sy + 1} -> 0
                  [] x = 0 /\ y \in 1 .. Sy ->
                        IF idx[1] > 0
                        THEN getBoundary(peers[<<idx[1] - 1, idx[2]>>], layer_no,
                                         facing.Left)[y - 1]
                        ELSE Inner(2, y)
                  [] x = Sx + 1 /\ y \in 1 .. Sy ->
                        IF idx[1] + 1 < NumX
                        THEN getBoundary(peers[<<idx[1] + 1, idx[2]>>], layer_no,
                                         facing.Right)[y - 1]
                        ELSE Inner(Sx - 1, y)
                  [] y = 0 /\ x \in 1 .. Sx ->
                        IF idx[2] > 0
                        THEN getBoundary(peers[<<idx[1], idx[2] - 1>>], layer_no,
                                         facing.Down)[x - 1]
                        ELSE Inner(x, 2)
                  [] y = Sy + 1 /\ x \in 1 .. Sx ->
                        IF idx[2] + 1 < NumY
                        THEN getBoundary(peers[<<idx[1], idx[2] + 1>>], layer_no,
                                         facing.Up)[x - 1]
                        ELSE Inner(x, Sy - 1)
                  [] OTHER -> Inner(x, y)]

HaloStripSizes_PeerLayer(dom, idx) ==
    LET peer == [Left |-> <<idx[1] - 1, idx[2]>>, Right |-> <<idx[1] + 1, idx[2]>>,
                 Down |-> <<idx[1], idx[2] - 1>>, Up |-> <<idx[1], idx[2] + 1>>]
    IN  [side \in {sd \in Sides : peer[sd] \in Idx} |->
            Cardinality(DOMAIN getBoundary(dom[peer[side]], dom[peer[side]].active,
                                           Facing[side]))]

\* MatrixFromAllscale: boundary.size() of the strip read on every side that
\* has a peer ("getBoundary(layer_no, ...)", layer_no the layer of the reader).
HaloStripSizes(dom, idx) ==
    LET layer_no == dom[idx].active
        peer == [Left |-> <<idx[1] - 1, idx[2]>>, Right |-> <<idx[1] + 1, idx[2]>>,
                 Down |-> <<idx[1], idx[2] - 1>>, Up |-> <<idx[1], idx[2] + 1>>]
    IN  [side \in {sd \in Sides : peer[sd] \in Idx} |->
            Cardinality(DOMAIN getBoundary(dom[peer[side]], layer_no, Facing[side]))]

MatrixFromAllscale_FromNext(dom, idx) == AssembleField(dom, temp_field, Facing, idx)

MatrixFromAllscale_SameSide(dom, idx) ==
    AssembleField(dom, dom, [side \in Sides |-> side], idx)

MatrixFromAllscale_ZeroOuter(dom, idx) ==
    LET f == AssembleField(dom, dom, Facing, idx)
        Sx == getLayerSize(dom[idx].active).x
        Sy == getLayerSize(dom[idx].active).y
    IN  [p \in DOMAIN f |->
            IF \/ p[1] = 0 /\ idx[1] = 0
               \/ p[1] = Sx + 1 /\ idx[1] = NumX - 1
               \/ p[2] = 0 /\ idx[2] = 0
               \/ p[2] = Sy + 1 /\ idx[2] = NumY - 1
            THEN 0 ELSE f[p]]

\* MatrixFromAllscale: all strips are read from the grid dom itself.
MatrixFromAllscale(dom, idx) == AssembleField(dom, dom, Facing, idx)

\* AllscaleFromMatrix: the interior of the matrix goes to the active layer.
AllscaleFromMatrix(cell, field) ==
    WithLayer(cell, cell.active,
        [p \in Nodes(cell.active) |-> field[<<p[1] + 1, p[2] + 1>>]])

RefreshCoarse_Stale(cell) == setActiveLayer(cell, LayerFine)

\* "Make up the coarse layer ..., then go back to the default resolution."
RefreshCoarse(cell) == setActiveLayer(coarsen(cell), LayerFine)

RefreshFine_NoReset(cell) == refine(cell)

\* "Make up the fine layer ..., then go back to the default resolution."
RefreshFine(cell) == setActiveLayer(refine(cell), LayerLow)

\* ------------------------------------------------------------------------
\* The two per-sub-domain routines. Each yields the new context, the new
\* next_state grid and whether all its assertions held.
\* ------------------------------------------------------------------------
SubdomainRoutineKalman_EverySubIter(c, sens, obs, external, timestamp, curr_state, next_state, ctx) ==
    LET idx == ctx.idx
        layer_ok == curr_state[idx].active = LayerFine
        ns0 == [next_state EXCEPT ![idx] = setActiveLayer(next_state[idx], LayerFine)]
        layer_size == getLayerSize(curr_state[idx].active)
        time_ok == timestamp < ctx.Nt * ctx.Nschwarz
        t_discrete == timestamp \div ctx.Nschwarz
        sub_iter == timestamp % ctx.Nschwarz
        flow == Flow(c, t_discrete)
        field0 == MatrixFromAllscale(curr_state, idx)
        z1 == IF sub_iter = 0 THEN GetObservations(obs, t_discrete, Len(sens))
              ELSE ctx.z
        Q1 == IF sub_iter = 0 THEN ComputeQ(c, idx, t_discrete) ELSE ctx.Q
        R1 == IF sub_iter = 0 THEN ComputeR(c, idx, t_discrete) ELSE ctx.R
        B1 == IF sub_iter = 0 THEN InverseModelMatrix(c, flow, layer_size, 0)
              ELSE ctx.B
        prior == PropagateStateInverse(field0, ctx.P, B1, Q1)
        post == SolveFilter(prior.x, prior.P, ctx.H, R1, z1, layer_size)
        ns1 == [ns0 EXCEPT ![idx] = AllscaleFromMatrix(ns0[idx], post.x)]
        ns2 == IF external THEN ApplyBoundaryCondition(ns1, idx) ELSE ns1
        ns3 == [ns2 EXCEPT ![idx] = ClampNonNegative(ns2[idx])]
        ns4 == [ns3 EXCEPT ![idx] = RefreshCoarse(ns3[idx])]
    IN  [ctx |-> [ctx EXCEPT !.flow = flow, !.field = post.x, !.z = z1,
                             !.Q = Q1, !.R = R1, !.B = B1, !.P = post.P],
         next_state |-> ns4,
         propagated |-> sub_iter = 0,
         prior_x |-> IF sub_iter = 0 THEN prior.x ELSE << >>,
         ok |-> layer_ok /\ time_ok]

SubdomainRoutineKalman(c, sens, obs, external, timestamp, curr_state, next_state, ctx) ==
    LET idx == ctx.idx
        layer_ok == curr_state[idx].active = LayerFine
        ns0 == [next_state EXCEPT ![idx] = setActiveLayer(next_state[idx], LayerFine)]
        layer_size == getLayerSize(curr_state[idx].active)
        time_ok == timestamp < ctx.Nt * ctx.Nschwarz
        t_discrete == timestamp \div ctx.Nschwarz
        sub_iter == timestamp % ctx.Nschwarz
        flow == Flow(c, t_discrete)
        field0 == MatrixFromAllscale(curr_state, idx)
        z1 == IF sub_iter = 0 THEN GetObservations(obs, t_discrete, Len(sens))
              ELSE ctx.z
        Q1 == IF sub_iter = 0 THEN ComputeQ(c, idx, t_discrete) ELSE ctx.Q
        R1 == IF sub_iter = 0 THEN ComputeR(c, idx, t_discrete) ELSE ctx.R
        B1 == IF sub_iter = 0 THEN InverseModelMatrix(c, flow, layer_size, 0)
              ELSE ctx.B
        prior == IF sub_iter = 0
                 THEN PropagateStateInverse(field0, ctx.P, B1, Q1)
                 ELSE [x |-> field0, P |-> ctx.P]
        post == SolveFilter(prior.x, prior.P, ctx.H, R1, z1, layer_size)
        ns1 == [ns0 EXCEPT ![idx] = AllscaleFromMatrix(ns0[idx], post.x)]
        ns2 == IF external THEN ApplyBoundaryCondition(ns1, idx) ELSE ns1
        ns3 == [ns2 EXCEPT ![idx] = ClampNonNegative(ns2[idx])]
        ns4 == [ns3 EXCEPT ![idx] = RefreshCoarse(ns3[idx])]
    IN  [ctx |-> [ctx EXCEPT !.flow = flow, !.field = post.x, !.z = z1,
                             !.Q = Q1, !.R = R1, !.B = B1, !.P = post.P],
         next_state |-> ns4,
         propagated |-> sub_iter = 0,
         prior_x |-> IF sub_iter = 0 THEN prior.x ELSE << >>,
         ok |-> layer_ok /\ time_ok]

SubdomainRoutineNoSensors(c, external, timestamp, curr_state, next_state, ctx) ==
    LET idx == ctx.idx
        layer_ok == curr_state[idx].active = LayerLow
        ns0 == [next_state EXCEPT ![idx] = setActiveLayer(next_state[idx], LayerLow)]
        layer_size == getLayerSize(curr_state[idx].active)
        time_ok == timestamp < ctx.Nt * ctx.Nschwarz
        t_discrete == timestamp \div ctx.Nschwarz
        flow == Flow(c, t_discrete)
        field0 == MatrixFromAllscale(curr_state, idx)
        B1 == InverseModelMatrix(c, flow, layer_size, ctx.Nschwarz)
        field1 == LUSolve(B1, field0)
        ns1 == [ns0 EXCEPT ![idx] = AllscaleFromMatrix(ns0[idx], field1)]
        ns2 == IF external THEN ApplyBoundaryCondition(ns1, idx) ELSE ns1
        ns3 == [ns2 EXCEPT ![idx] = ClampNonNegative(ns2[idx])]
        ns4 == [ns3 EXCEPT ![idx] = RefreshFine(ns3[idx])]
    IN  [ctx |-> [ctx EXCEPT !.flow = flow, !.field = field1,
                             !.tmp_field = field0, !.B = B1],
         next_state |-> ns4,
         propagated |-> FALSE,
         prior_x |-> << >>,
         ok |-> layer_ok /\ time_ok]

\* ------------------------------------------------------------------------
\* Observer: time filter and record writer.
\* ------------------------------------------------------------------------
\* Width of size_t in the model (TLC integers are narrower than 64 bits).
WordBits == 16
WordMod == 2 ^ WordBits
AsSizeT(n) == n % WordMod

TruncDiv(a, b) == IF a >= 0 THEN a \div b ELSE 0 - ((0 - a) \div b)

\* The time filter with the predecessor of t = 0 taken as 0 instead of
\* wrapping around.
TimeFilter_ClampedPrev(Nschwarz, Nwrite, Nt, time) ==
    IF time % Nschwarz # 0 THEN FALSE
    ELSE LET ts == time \div Nschwarz
             prev == IF ts = 0 THEN 0 ELSE ts - 1
         IN  AsSizeT((Nwrite - 1) * AsSizeT(prev)) \div (Nt - 1)
                # AsSizeT((Nwrite - 1) * AsSizeT(ts)) \div (Nt - 1)

TimeFilter_Signed(Nschwarz, Nwrite, Nt, time) ==
    IF time % Nschwarz # 0 THEN FALSE
    ELSE LET ts == time \div Nschwarz
         IN  TruncDiv((Nwrite - 1) * (ts - 1), Nt - 1)
                # TruncDiv((Nwrite - 1) * ts, Nt - 1)

\* The time filter of the observer; Nwrite and Nt are size_t, so the products
\* and quotients are unsigned and t - 1 wraps around at t = 0.
TimeFilter(Nschwarz, Nwrite, Nt, time) ==
    IF time % Nschwarz # 0 THEN FALSE
    ELSE LET ts == time \div Nschwarz
         IN  AsSizeT((Nwrite - 1) * AsSizeT(ts - 1)) \div (Nt - 1)
                # AsSizeT((Nwrite - 1) * AsSizeT(ts)) \div (Nt - 1)

ObserverTimeIndex_Raw(time, Nschwarz) == time

\* "t /= time_t(Nschwarz)": the time index written in the records.
ObserverTimeIndex(time, Nschwarz) == time \div Nschwarz

\* Sub2Glo: global coordinates of a node of sub-domain idx.
Sub2Glo(loc, idx, layer_size) ==
    <<idx[1] * layer_size.x + loc[1], idx[2] * layer_size.y + loc[2]>>

RefineToFinest_None(cell) == cell

RECURSIVE RefineToFinest(_)
RefineToFinest(cell) ==
    IF cell.active # LayerFine THEN RefineToFinest(refine(cell)) ELSE cell

\* The record the observer appends for node loc of the finest layer:
\* (t, glo.x, glo.y, val).
WriterRecord(time, idx, cell, Nschwarz, loc) ==
    LET ts == ObserverTimeIndex(time, Nschwarz)
        temp == RefineToFinest(cell)
        finest_layer_size == getLayerSize(temp.active)
        glo == Sub2Glo(loc, idx, finest_layer_size)
    IN  <<ts, glo[1], glo[2], temp.data[temp.active][loc]>>

\* The nodes the writer of one sub-domain visits.
WriterNodes(cell) == Nodes(RefineToFinest(cell).active)

\* The records the observer appends for one sub-domain.
ObserverRecords(time, idx, cell, Nschwarz) ==
    { WriterRecord(time, idx, cell, Nschwarz, loc) : loc \in WriterNodes(cell) }

\* ------------------------------------------------------------------------
\* Initial state: the state after the initialisation loop of
\* RunDataAssimilation.
\* ------------------------------------------------------------------------
\* Sensor list of a sub-domain that has sensors (local fine coordinates).
SensorList(idx) ==
    IF (idx[1] + idx[2]) % 2 = 0 THEN << <<1, 1>> >> ELSE << <<1, 1>>, <<2, 1>> >>

\* The sets of sub-domains with sensors the model starts from: none, all, the
\* first one only, and every second one.
SensorSets ==
    { {}, Idx, {<<0, 0>>}, {idx \in Idx : (idx[1] + idx[2]) % 2 = 1} }

SensorLayouts ==
    { [idx \in Idx |-> IF idx \in S THEN SensorList(idx) ELSE << >>] : S \in SensorSets }

ObsTable(k, sens, Nt) ==
    [idx \in Idx |->
        [e \in (0 .. Nt - 1) \X (1 .. Len(sens[idx])) |->
            Unit * ((k + e[1] + e[2] + idx[1]) % 2)]]

Configs ==
    [Nt : 2 .. MaxNt, Nschwarz : 1 .. MaxNschwarz, Nwrite : 2 .. MaxNwrite]

InitCell(sens, idx) ==
    LET z0 == ZeroCell(LayerLow)
        z1 == ApplyBoundaryCondition([i \in Idx |-> ZeroCell(LayerFine)], idx)[idx]
        z2 == ApplyBoundaryCondition([i \in Idx |-> z0], idx)[idx]
    IN  IF Len(sens[idx]) > 0
        THEN WithLayer(z1, LayerLow, z2.data[LayerLow])
        ELSE WithLayer(z2, LayerFine, z1.data[LayerFine])

InitContext(c, sens, idx) ==
    LET Nsensors == Len(sens[idx])
        layer == IF Nsensors > 0 THEN LayerFine ELSE LayerLow
        layer_size == getLayerSize(layer)
    IN  [field |-> [p \in ExtNodes(layer) |-> 0],
         tmp_field |-> << >>,
         B |-> [vx |-> 0, vy |-> 0, div |-> 0, size |-> layer_size],
         P |-> IF Nsensors > 0 THEN InitialCovar(c) ELSE 0,
         Q |-> 0,
         R |-> 0,
         H |-> IF Nsensors > 0 THEN ComputeH(sens[idx], layer_size) ELSE << >>,
         z |-> [i \in 1 .. Nsensors |-> 0],
         sensors |-> IF Nsensors > 0 THEN sens[idx] ELSE << >>,
         idx |-> idx,
         Nt |-> c.Nt,
         Nschwarz |-> c.Nschwarz,
         Nsensors |-> Nsensors,
         flow |-> <<0, 0>>]

\* ------------------------------------------------------------------------
\* Start-up: the configuration file and InitDependentParams.
\* Real quantities are exact fractions <<numerator, denominator>> with a
\* positive denominator; "int" is a two's complement word of IntBits bits.
\* ------------------------------------------------------------------------
IntBits == 8

\* static_cast<int>(double): the value when it fits the word; the conversion
\* of a value that does not fit is undefined and may yield any word.
CastInt(v) ==
    LET IntMax == 2 ^ (IntBits - 1) - 1
        IntMin == 0 - 2 ^ (IntBits - 1)
    IN  IF v \in IntMin .. IntMax THEN {v} ELSE IntMin .. IntMax

\* a <= b for fractions.
RatLeq(a, b) == a[1] * b[2] <= b[1] * a[2]

\* The parameters a configuration file may hold.
RawConfigs ==
    [subdomain_x : {getLayerSize(LayerFine).x, getLayerSize(LayerFine).x + 1},
     subdomain_y : {getLayerSize(LayerFine).y, getLayerSize(LayerFine).y + 1},
     integers : BOOLEAN,
     diffusion_coef : {0, 1, 2 ^ (IntBits - 2)},
     domain_size : {0, NumX * getLayerSize(LayerFine).x - 1},
     integration_period : {1, 2},
     integration_nsteps : 1 .. MaxNt,
     schwarz_num_iters : {1},
     write_num_fields : {2}]

\* A configuration file InitDependentParams turns into conf.
RawFor(c) ==
    [subdomain_x |-> getLayerSize(LayerFine).x,
     subdomain_y |-> getLayerSize(LayerFine).y,
     integers |-> TRUE,
     diffusion_coef |-> 1,
     domain_size |-> NumX * getLayerSize(LayerFine).x - 1,
     integration_period |-> 1,
     integration_nsteps |-> c.Nt,
     schwarz_num_iters |-> c.Nschwarz,
     write_num_fields |-> c.Nwrite]

AllEffects ==
    {"config_read", "sensors_loaded", "observations_loaded", "fields_allocated",
     "result_file_created"}

\* "hard-coded value must match the parameter".
SubdomainSizeMatches_OnlyX(raw) == raw.subdomain_x = getLayerSize(LayerFine).x

SubdomainSizeMatches(raw) ==
    /\ raw.subdomain_x = getLayerSize(LayerFine).x
    /\ raw.subdomain_y = getLayerSize(LayerFine).y

\* dx = domain_size_x / (nx - 1), dy = domain_size_y / (ny - 1).
GridSteps(raw) ==
    [dx |-> <<raw.domain_size, NumX * getLayerSize(LayerFine).x - 1>>,
     dy |-> <<raw.domain_size, NumY * getLayerSize(LayerFine).y - 1>>]

\* dt = min(dt_base, min(min(dx^2, dy^2) / (2 D), 1 / (|vx|/dx + |vy|/dy))),
\* evaluated once D, dx and dy are known to be positive; flow_model_max_vx
\* and flow_model_max_vy are 1. TINY is below every positive fraction of the
\* model and is left out of the sums.
TimeStep(raw) ==
    LET RatMin(a, b) == IF RatLeq(a, b) THEN a ELSE b
        Square(a) == <<a[1] * a[1], a[2] * a[2]>>
        dx == GridSteps(raw).dx
        dy == GridSteps(raw).dy
        max_vx == 1
        max_vy == 1
        dt_base == <<raw.integration_period, raw.integration_nsteps>>
        least == RatMin(Square(dx), Square(dy))
        diffusive == <<least[1], least[2] * 2 * raw.diffusion_coef>>
        advective == <<dx[1] * dy[1], max_vx * dx[2] * dy[1] + max_vy * dy[2] * dx[1]>>
    IN  RatMin(dt_base, RatMin(diffusive, advective))

\* The assertions of InitDependentParams, in the order of the code.
ParamsAccepted(raw) ==
    /\ getLayerSize(LayerFine).x >= 3 /\ getLayerSize(LayerFine).y >= 3
    /\ raw.integers
    /\ SubdomainSizeMatches(raw)
    /\ raw.diffusion_coef > 0
    /\ GridSteps(raw).dx[1] > 0 /\ GridSteps(raw).dy[1] > 0
    /\ TimeStep(raw)[1] > 0

\* The values InitDependentParams may store for an accepted configuration:
\* dt and Nt = static_cast<int>(std::ceil(integration_period / dt)).
DependentParams(raw) ==
    LET dt == TimeStep(raw)
        Ceil(a) == 0 - ((0 - a[1]) \div a[2])
    IN  { [dt |-> dt, Nt |-> n] : n \in CastInt(Ceil(<<raw.integration_period * dt[2], dt[1]>>)) }

InitRun(c, sens, k, seed) ==
    /\ conf = c
    /\ sensors = sens
    /\ observations = ObsTable(k, sens, c.Nt)
    /\ rng_seed = seed
    /\ contexts = [idx \in Idx |-> InitContext(c, sens, idx)]
    /\ state_field = [idx \in Idx |-> InitCell(sens, idx)]
    /\ temp_field = [idx \in Idx |-> InitCell(sens, idx)]
    /\ stencil_buf = [idx \in Idx |-> ZeroCell(LayerFine)]
    /\ t = 0
    /\ phase = "update"
    /\ done = {}
    /\ stamp = [idx \in Idx |-> 0 - 1]
    /\ calls = [idx \in Idx |-> [kalman |-> 0, nosensors |-> 0, prior |-> 0, prior_x |-> << >>]]
    /\ start_ctx = [idx \in Idx |-> InitContext(c, sens, idx)]
    /\ snaps = {}
    /\ written = {}
    /\ out = EmptyBag
    /\ stream_open = TRUE
    /\ wr = [idx \in Idx |-> [node |-> 0, k |-> 0, in |-> FALSE]]
    /\ lock = "none"
    /\ tail = << >>
    /\ pc = "running"
    /\ raw_conf = RawFor(c)
    /\ params = [dt |-> <<1, c.Nt>>, Nt |-> c.Nt]
    /\ effects = AllEffects
    /\ loader = Idle
    /\ kf = Idle
    /\ euler = Idle
    /\ schwarz = Idle /\ bmatrix = Idle

Init ==
    \E c \in Configs, sens \in SensorLayouts,
       k \in 0 .. NumObsTables - 1, seed \in 0 .. NumSeeds - 1 :
        InitRun(c, sens, k, seed)

\* ------------------------------------------------------------------------
\* The stencil loop.
\* ------------------------------------------------------------------------
\* pforWithBoundary: a point is a boundary point when it lies on a face of
\* the lattice.
IsBoundary(idx) ==
    idx[1] \in {0, NumX - 1} \/ idx[2] \in {0, NumY - 1}

NumSteps_OneMore(c) == c.Nt * c.Nschwarz + 1

NumSteps_NoSub(c) == c.Nt

\* Number of steps handed to the stencil.
NumSteps(c) == c.Nt * c.Nschwarz

\* The update lambdas: the Kalman routine where the context has sensors, the
\* direct solve elsewhere; external is TRUE in the lambda of boundary points.
UpdateLambda(idx, external, time, state, next_state, ctx) ==
    IF ctx.Nsensors > 0
    THEN SubdomainRoutineKalman(conf, sensors[idx], observations[idx],
                                external, time, state, next_state, ctx)
    ELSE SubdomainRoutineNoSensors(conf, external, time, state, next_state, ctx)

\* One call of the update lambda of the stencil for sub-domain idx at time t:
\* the routine writes temp_field[idx] and its own context, and the stencil
\* stores the returned cell.
Update(idx) ==
    /\ phase = "update"
    /\ idx \notin done
    /\ LET kalman == contexts[idx].Nsensors > 0
           r == UpdateLambda(idx, IsBoundary(idx), t, state_field, temp_field,
                             contexts[idx])
       IN  /\ contexts' = [contexts EXCEPT ![idx] = r.ctx]
           /\ temp_field' = r.next_state
           /\ stencil_buf' = [stencil_buf EXCEPT ![idx] = r.next_state[idx]]
           /\ phase' = IF r.ok THEN phase ELSE "aborted"
           /\ calls' = [calls EXCEPT ![idx] =
                          [kalman |-> @.kalman + (IF kalman THEN 1 ELSE 0),
                           nosensors |-> @.nosensors + (IF kalman THEN 0 ELSE 1),
                           prior |-> @.prior + (IF r.propagated THEN 1 ELSE 0),
                           prior_x |-> r.prior_x]]
    /\ stamp' = [stamp EXCEPT ![idx] = t]
    /\ done' = done \cup {idx}
    /\ UNCHANGED writer_vars
    /\ UNCHANGED startup_vars
    /\ UNCHANGED unit_vars
    /\ UNCHANGED <<conf, sensors, observations, rng_seed, state_field, t,
                   start_ctx, snaps, written, out, stream_open>>

StepComplete_Early == done # {}

\* The parallel loop over the sub-domains has completed.
StepComplete == done = Idx

\* The end of the stencil's loop body: buffers are swapped and time advances.
NextStep ==
    /\ state_field' = stencil_buf
    /\ stencil_buf' = state_field
    /\ t' = t + 1
    /\ done' = {}
    /\ start_ctx' = contexts
    /\ phase' = IF t + 1 < NumSteps(conf) THEN "update" ELSE "closing"

\* All updates of step t have completed.
Barrier ==
    /\ phase = "update"
    /\ StepComplete
    /\ IF TimeFilter(conf.Nschwarz, conf.Nwrite, conf.Nt, t)
       THEN /\ phase' = "observe"
            /\ done' = {}
            /\ snaps' = snaps \cup {t}
            /\ UNCHANGED <<state_field, stencil_buf, t, start_ctx>>
       ELSE NextStep /\ UNCHANGED snaps
    /\ UNCHANGED writer_vars
    /\ UNCHANGED startup_vars
    /\ UNCHANGED unit_vars
    /\ UNCHANGED <<conf, sensors, observations, rng_seed, contexts, temp_field,
                   stamp, calls, written, out, stream_open>>

\* The observer's writer for one sub-domain of a selected time slice.
Observe(idx) ==
    /\ phase = "observe"
    /\ idx \notin done
    /\ out' = out (+) SetToBag(ObserverRecords(t, idx, stencil_buf[idx], conf.Nschwarz))
    /\ written' = written \cup {ObserverTimeIndex(t, conf.Nschwarz)}
    /\ done' = done \cup {idx}
    /\ UNCHANGED writer_vars
    /\ UNCHANGED startup_vars
    /\ UNCHANGED unit_vars
    /\ UNCHANGED <<conf, sensors, observations, rng_seed, contexts, state_field,
                   stencil_buf, temp_field, t, phase, stamp, calls, start_ctx,
                   snaps, stream_open>>

EndObserve ==
    /\ phase = "observe"
    /\ StepComplete
    /\ NextStep
    /\ UNCHANGED writer_vars
    /\ UNCHANGED startup_vars
    /\ UNCHANGED unit_vars
    /\ UNCHANGED <<conf, sensors, observations, rng_seed, contexts, temp_field,
                   stamp, calls, snaps, written, out, stream_open>>

\* file_manager.close(out_stream) after the stencil has returned.
Close ==
    /\ phase = "closing"
    /\ stream_open' = FALSE
    /\ phase' = "done"
    /\ UNCHANGED writer_vars
    /\ UNCHANGED startup_vars
    /\ UNCHANGED unit_vars
    /\ UNCHANGED <<conf, sensors, observations, rng_seed, contexts, state_field,
                   stencil_buf, temp_field, t, done, stamp, calls, start_ctx,
                   snaps, written, out>>

Next ==
    \/ \E idx \in Idx : Update(idx)
    \/ Barrier
    \/ \E idx \in Idx : Observe(idx)
    \/ EndObserve
    \/ Close

Spec == Init /\ [][Next]_vars

\* The runtime runs every enabled task to completion.
FairSpec == Spec /\ WF_vars(Next)

\* ------------------------------------------------------------------------
\* The observer's time filter over the times the stencil passes to it.
\* ------------------------------------------------------------------------
\* The run the documentation quotes.
Scenario == [Nt |-> 100, Nschwarz |-> 3, Nwrite |-> 11]

SchedConfigs ==
    [Nt : 2 .. SchedMaxNt, Nschwarz : 1 .. SchedMaxNschwarz,
     Nwrite : 2 .. SchedMaxNwrite] \cup {Scenario}

NoSensors == [idx \in Idx |-> << >>]

InitSched == \E c \in SchedConfigs : InitRun(c, NoSensors, 0, 0)

\* One time slice: the stencil asks the time filter about t and, for a
\* selected t, the writer records the time index; the fields are left alone.
FilterStep ==
    /\ phase = "update"
    /\ t < NumSteps(conf)
    /\ IF TimeFilter(conf.Nschwarz, conf.Nwrite, conf.Nt, t)
       THEN /\ snaps' = snaps \cup {t}
            /\ written' = written \cup {ObserverTimeIndex(t, conf.Nschwarz)}
       ELSE UNCHANGED <<snaps, written>>
    /\ t' = t + 1
    /\ phase' = IF t + 1 < NumSteps(conf) THEN "update" ELSE "closing"
    /\ UNCHANGED writer_vars
    /\ UNCHANGED startup_vars
    /\ UNCHANGED unit_vars
    /\ UNCHANGED <<conf, sensors, observations, rng_seed, contexts, state_field,
                   stencil_buf, temp_field, done, stamp, calls, start_ctx, out,
                   stream_open>>

NextSched ==
    \/ FilterStep
    \/ Close

SpecSched == InitSched /\ [][NextSched]_vars

\* ------------------------------------------------------------------------
\* The observer's writer, one stream operation at a time.
\* ------------------------------------------------------------------------
\* The shortest run that writes two snapshots.
WriteConf == [Nt |-> 2, Nschwarz |-> 1, Nwrite |-> 2]

\* The number of writers that run concurrently in the last snapshot (the
\* writers of the other sub-domains have run before them).
NumWriters == 2

\* The observer of the last step is running and at most NumWriters writers
\* are left.
Interleaved ==
    /\ phase = "observe"
    /\ t + 1 = NumSteps(conf)
    /\ Cardinality(Idx \ done) <= NumWriters

\* The n-th node forAllActiveNodes visits in a cell.
NodeAt(cell, n) ==
    LET sz == getLayerSize(RefineToFinest(cell).active)
    IN  <<n \div sz.y, n % sz.y>>

NumNodes(cell) == Cardinality(WriterNodes(cell))

\* The runs start as the runs of WriteConf with sensors do.
InitWrite ==
    \E sens \in SensorLayouts \ {NoSensors} : InitRun(WriteConf, sens, 0, 1)

\* The writer of one sub-domain, run without interruption.
ObserveWhole(idx) ==
    /\ ~Interleaved
    /\ Observe(idx)

AtomicFree_Always(idx) == TRUE

\* out_stream.atomic runs one operation at a time.
AtomicFree(idx) == lock = "none"

\* "out_stream.atomic([=](auto & file) {": the writer of idx enters the
\* atomic operation for its next node.
EnterAtomic(idx) ==
    /\ Interleaved
    /\ idx \notin done
    /\ wr[idx].node < NumNodes(stencil_buf[idx])
    /\ ~wr[idx].in
    /\ AtomicFree(idx)
    /\ lock' = idx
    /\ wr' = [wr EXCEPT ![idx] = [node |-> wr[idx].node, k |-> 0, in |-> TRUE]]
    /\ UNCHANGED <<tail, out, written, done>>
    /\ UNCHANGED startup_vars
    /\ UNCHANGED unit_vars
    /\ UNCHANGED <<conf, sensors, observations, rng_seed, contexts, state_field,
                   stencil_buf, temp_field, t, phase, stamp, calls, start_ctx,
                   snaps, stream_open>>

\* "file.write(static_cast<float>(...))": the next float of the record.
WriteFloat(idx) ==
    /\ phase = "observe"
    /\ wr[idx].in
    /\ wr[idx].k < 4
    /\ LET rec == WriterRecord(t, idx, stencil_buf[idx], conf.Nschwarz,
                               NodeAt(stencil_buf[idx], wr[idx].node))
           grown == Append(tail, rec[wr[idx].k + 1])
       IN  /\ IF Len(grown) = 4
              THEN out' = out (+) SetToBag({grown}) /\ tail' = << >>
              ELSE out' = out /\ tail' = grown
           /\ written' = IF wr[idx].k = 0 THEN written \cup {rec[1]} ELSE written
    /\ wr' = [wr EXCEPT ![idx] = [node |-> wr[idx].node, k |-> wr[idx].k + 1,
                                  in |-> TRUE]]
    /\ UNCHANGED <<lock, done>>
    /\ UNCHANGED startup_vars
    /\ UNCHANGED unit_vars
    /\ UNCHANGED <<conf, sensors, observations, rng_seed, contexts, state_field,
                   stencil_buf, temp_field, t, phase, stamp, calls, start_ctx,
                   snaps, stream_open>>

\* The atomic operation returns; after the last node the writer is done.
LeaveAtomic(idx) ==
    /\ phase = "observe"
    /\ wr[idx].in
    /\ wr[idx].k = 4
    /\ lock' = "none"
    /\ wr' = [wr EXCEPT ![idx] = [node |-> wr[idx].node + 1, k |-> 0, in |-> FALSE]]
    /\ done' = IF wr[idx].node + 1 = NumNodes(stencil_buf[idx])
               THEN done \cup {idx} ELSE done
    /\ UNCHANGED <<tail, out, written>>
    /\ UNCHANGED startup_vars
    /\ UNCHANGED unit_vars
    /\ UNCHANGED <<conf, sensors, observations, rng_seed, contexts, state_field,
                   stencil_buf, temp_field, t, phase, stamp, calls, start_ctx,
                   snaps, stream_open>>

NextWrite ==
    \/ \E idx \in Idx : Update(idx)
    \/ Barrier
    \/ \E idx \in Idx : ObserveWhole(idx)
    \/ \E idx \in Idx : EnterAtomic(idx)
    \/ \E idx \in Idx : WriteFloat(idx)
    \/ \E idx \in Idx : LeaveAtomic(idx)
    \/ EndObserve
    \/ Close

SpecWrite == InitWrite /\ [][NextWrite]_vars

\* ------------------------------------------------------------------------
\* Start-up specification: ScenarioSimulation3 from the configuration file
\* to the first step of the stencil. A failed assert_true ends the program.
\* ------------------------------------------------------------------------
NotAllocated == << >>

\* The program before ScenarioSimulation3 has done anything.
NotStarted ==
    /\ pc = "start"
    /\ params = [dt |-> <<0, 1>>, Nt |-> 0]
    /\ effects = {}
    /\ conf = [Nt |-> 0, Nschwarz |-> 0, Nwrite |-> 0]
    /\ sensors = NotAllocated
    /\ observations = NotAllocated
    /\ rng_seed = 0
    /\ contexts = NotAllocated
    /\ state_field = NotAllocated
    /\ temp_field = NotAllocated
    /\ stencil_buf = NotAllocated
    /\ t = 0
    /\ phase = "startup"
    /\ done = {}
    /\ stamp = NotAllocated
    /\ calls = NotAllocated
    /\ start_ctx = NotAllocated
    /\ snaps = {}
    /\ written = {}
    /\ out = EmptyBag
    /\ stream_open = FALSE
    /\ wr = [idx \in Idx |-> [node |-> 0, k |-> 0, in |-> FALSE]]
    /\ lock = "none"
    /\ tail = << >>

InitStartup == raw_conf \in RawConfigs /\ NotStarted /\ loader = Idle /\ kf = Idle /\ euler = Idle /\ schwarz = Idle /\ bmatrix = Idle

\* conf.ReadConfigFile(config_file).
ReadConfigFile ==
    /\ pc = "start"
    /\ pc' = "init_params"
    /\ effects' = effects \cup {"config_read"}
    /\ UNCHANGED <<raw_conf, params>>
    /\ UNCHANGED writer_vars
    /\ UNCHANGED unit_vars
    /\ UNCHANGED <<conf, sensors, observations, rng_seed, contexts, state_field,
                   stencil_buf, temp_field, t, phase, done, stamp, calls,
                   start_ctx, snaps, written, out, stream_open>>

\* InitDependentParams(conf); conf.PrintParameters().
InitDependentParams ==
    /\ pc = "init_params"
    /\ IF ParamsAccepted(raw_conf)
       THEN /\ params' \in DependentParams(raw_conf)
            /\ pc' = "load_sensors"
       ELSE /\ params' = params
            /\ pc' = "failed"
    /\ UNCHANGED <<raw_conf, effects>>
    /\ UNCHANGED writer_vars
    /\ UNCHANGED unit_vars
    /\ UNCHANGED <<conf, sensors, observations, rng_seed, contexts, state_field,
                   stencil_buf, temp_field, t, phase, done, stamp, calls,
                   start_ctx, snaps, written, out, stream_open>>

\* Grid<point_array_t,2> sensors(...); LoadSensorLocations(conf, sensors).
LoadSensorLocations ==
    /\ pc = "load_sensors"
    /\ sensors' \in SensorLayouts
    /\ pc' = "load_measurements"
    /\ effects' = effects \cup {"sensors_loaded"}
    /\ UNCHANGED <<raw_conf, params>>
    /\ UNCHANGED writer_vars
    /\ UNCHANGED unit_vars
    /\ UNCHANGED <<conf, observations, rng_seed, contexts, state_field,
                   stencil_buf, temp_field, t, phase, done, stamp, calls,
                   start_ctx, snaps, written, out, stream_open>>

\* Grid<Matrix,2> observations(...); LoadSensorMeasurements(...).
LoadSensorMeasurements ==
    /\ pc = "load_measurements"
    /\ observations' = ObsTable(0, sensors, params.Nt)
    /\ pc' = "run"
    /\ effects' = effects \cup {"observations_loaded"}
    /\ UNCHANGED <<raw_conf, params>>
    /\ UNCHANGED writer_vars
    /\ UNCHANGED unit_vars
    /\ UNCHANGED <<conf, sensors, rng_seed, contexts, state_field,
                   stencil_buf, temp_field, t, phase, done, stamp, calls,
                   start_ctx, snaps, written, out, stream_open>>

\* RunDataAssimilation up to the stencil call: the contexts and the two field
\* grids are allocated and initialised, then the result file is created.
\* Runs of more than MaxNt steps are not followed.
StartRun ==
    /\ pc = "run"
    /\ params.Nt \in 2 .. MaxNt
    /\ LET c == [Nt |-> params.Nt, Nschwarz |-> raw_conf.schwarz_num_iters,
                 Nwrite |-> raw_conf.write_num_fields]
       IN  /\ conf' = c
           /\ contexts' = [idx \in Idx |-> InitContext(c, sensors, idx)]
           /\ start_ctx' = [idx \in Idx |-> InitContext(c, sensors, idx)]
    /\ state_field' = [idx \in Idx |-> InitCell(sensors, idx)]
    /\ temp_field' = [idx \in Idx |-> InitCell(sensors, idx)]
    /\ stencil_buf' = [idx \in Idx |-> ZeroCell(LayerFine)]
    /\ stamp' = [idx \in Idx |-> 0 - 1]
    /\ calls' = [idx \in Idx |-> [kalman |-> 0, nosensors |-> 0, prior |-> 0, prior_x |-> << >>]]
    /\ stream_open' = TRUE
    /\ phase' = "update"
    /\ pc' = "running"
    /\ effects' = effects \cup {"fields_allocated", "result_file_created"}
    /\ UNCHANGED <<raw_conf, params>>
    /\ UNCHANGED writer_vars
    /\ UNCHANGED unit_vars
    /\ UNCHANGED <<sensors, observations, rng_seed, t, done, snaps, written, out>>

NextStartup ==
    \/ ReadConfigFile
    \/ InitDependentParams
    \/ LoadSensorLocations
    \/ LoadSensorMeasurements
    \/ StartRun
    \/ \E idx \in Idx : pc = "running" /\ t = 0 /\ Update(idx)

SpecStartup == InitStartup /\ [][NextStartup]_vars

\* ------------------------------------------------------------------------
\* ReadAnalyticSolution: the observation loader, token by token. The file
\* is a sequence of integer tokens; data is a FileNx x FileNy x FileNt cube.
\* ------------------------------------------------------------------------
FileNx == 2

FileNy == 2

FileNt == 2

\* The nodes of one time step in the order the loader expects them.
FileNodes == [k \in 1 .. FileNx * FileNy |-> <<(k - 1) \div FileNy, (k - 1) % FileNy>>]

\* The files: up to FileNt + 2 steps, at most one of them with a changed
\* header or node list, or a complete file cut short by one or two tokens.
\* Each comes with the flag "well formed": headers 0 .. FileNt - 1 in this
\* order, every step listing every node as a triple, x outer and y inner.
LoaderFiles ==
    LET Del(q, k) == [m \in 1 .. Len(q) - 1 |-> IF m < k THEN q[m] ELSE q[m + 1]]
        Dup(q, k) == [m \in 1 .. Len(q) + 1 |-> IF m <= k THEN q[m] ELSE q[m - 1]]
        Swap(q, k) == [m \in 1 .. Len(q) |-> IF m = k THEN q[k + 1] ELSE IF m = k + 1 THEN q[k] ELSE q[m]]
        Flip(q) == [m \in 1 .. Len(q) |-> <<q[m][2], q[m][1]>>]
        NodeLists == {FileNodes, Flip(FileNodes)}
                     \cup {Del(FileNodes, k) : k \in 1 .. Len(FileNodes)}
                     \cup {Dup(FileNodes, k) : k \in 1 .. Len(FileNodes)}
                     \cup {Swap(FileNodes, k) : k \in 1 .. Len(FileNodes) - 1}
        Steps(n, d, h, q) == [m \in 1 .. n |-> IF m = d THEN [t |-> h, nodes |-> q]
                                                ELSE [t |-> m - 1, nodes |-> FileNodes]]
        RECURSIVE NodeTokens(_), Tokens(_)
        NodeTokens(q) == IF q = << >> THEN << >>
                         ELSE <<q[1][1], q[1][2], 1>> \o NodeTokens(Tail(q))
        Tokens(st) == IF st = << >> THEN << >>
                      ELSE <<st[1].t, st[1].t>> \o NodeTokens(st[1].nodes) \o Tokens(Tail(st))
        Good(st) == /\ Len(st) = FileNt
                    /\ \A m \in 1 .. Len(st) : st[m].t = m - 1 /\ st[m].nodes = FileNodes
        Whole == { Steps(n, d, h, q) : n \in 0 .. FileNt + 2, d \in 0 .. FileNt + 2,
                                       h \in 0 .. FileNt + 1, q \in NodeLists }
    IN  { [tokens |-> Tokens(st), wellformed |-> Good(st)] : st \in Whole }
        \cup { [tokens |-> SubSeq(Tokens(Steps(FileNt, 0, 0, FileNodes)), 1,
                                  FileNt * (2 + 3 * Len(FileNodes)) - cut),
                wellformed |-> FALSE] : cut \in 1 .. 2 }

InitLoader ==
    /\ raw_conf = RawFor(WriteConf)
    /\ NotStarted
    /\ kf = Idle /\ euler = Idle /\ schwarz = Idle /\ bmatrix = Idle
    /\ \E f \in LoaderFiles :
          loader = [status |-> "header", file |-> f.tokens, wellformed |-> f.wellformed,
                    pos |-> 1, good |-> TRUE, Nt |-> FileNt, debug_t |-> 0, t |-> 0,
                    x |-> 0, y |-> 0, stored |-> {}]

\* "file >> v": the next token; at the end of the file the stream fails and v
\* becomes 0; a stream that has failed reads nothing and leaves v alone.
Extract(l, v) ==
    IF ~l.good THEN [v |-> v, pos |-> l.pos, good |-> FALSE]
    ELSE IF l.pos > Len(l.file) THEN [v |-> 0, pos |-> l.pos, good |-> FALSE]
    ELSE [v |-> l.file[l.pos], pos |-> l.pos + 1, good |-> TRUE]

\* The head of the outer loop, "file >> t >> physical_time", with the two
\* assertions on the header; when the extraction fails the loop ends and the
\* assertion on the number of steps decides.
LoaderHeader ==
    /\ loader.status = "header"
    /\ LET e1 == Extract(loader, loader.t)
           e2 == Extract([loader EXCEPT !.pos = e1.pos, !.good = e1.good], 0)
       IN  loader' =
             IF ~e2.good
             THEN [loader EXCEPT !.t = e1.v, !.pos = e2.pos, !.good = FALSE,
                     !.status = IF loader.debug_t = loader.Nt THEN "accepted" ELSE "failed"]
             ELSE IF loader.debug_t # e1.v \/ ~(e1.v <= loader.Nt)
             THEN [loader EXCEPT !.t = e1.v, !.pos = e2.pos, !.status = "failed"]
             ELSE [loader EXCEPT !.t = e1.v, !.pos = e2.pos, !.status = "node",
                     !.debug_t = loader.debug_t + 1, !.x = 0, !.y = 0]
    /\ UNCHANGED <<kf, euler, schwarz, bmatrix>>
    /\ UNCHANGED writer_vars
    /\ UNCHANGED startup_vars
    /\ UNCHANGED <<conf, sensors, observations, rng_seed, contexts, state_field,
                   stencil_buf, temp_field, t, phase, done, stamp, calls,
                   start_ctx, snaps, written, out, stream_open>>

\* One pass of the inner loops: "file >> i >> j >> val", the layout check
\* and the store data[{i,j,t}] = val.
LoaderNode ==
    /\ loader.status = "node"
    /\ LET e1 == Extract(loader, 0)
           e2 == Extract([loader EXCEPT !.pos = e1.pos, !.good = e1.good], 0)
           e3 == Extract([loader EXCEPT !.pos = e2.pos, !.good = e2.good], 0)
           last == loader.x = FileNx - 1 /\ loader.y = FileNy - 1
       IN  loader' =
             IF ~(e1.v = loader.x /\ e2.v = loader.y)
             THEN [loader EXCEPT !.pos = e3.pos, !.good = e3.good, !.status = "failed"]
             ELSE [loader EXCEPT !.pos = e3.pos, !.good = e3.good,
                     !.stored = @ \cup {<<e1.v, e2.v, loader.t, e3.v>>},
                     !.status = IF last THEN "header" ELSE "node",
                     !.x = IF loader.y = FileNy - 1 THEN loader.x + 1 ELSE loader.x,
                     !.y = IF loader.y = FileNy - 1 THEN 0 ELSE loader.y + 1]
    /\ UNCHANGED <<kf, euler, schwarz, bmatrix>>
    /\ UNCHANGED writer_vars
    /\ UNCHANGED startup_vars
    /\ UNCHANGED <<conf, sensors, observations, rng_seed, contexts, state_field,
                   stencil_buf, temp_field, t, phase, done, stamp, calls,
                   start_ctx, snaps, written, out, stream_open>>

NextLoader == LoaderHeader \/ LoaderNode

SpecLoader == InitLoader /\ [][NextLoader]_vars

\* ------------------------------------------------------------------------
\* KalmanFilter (kalman_filter.h) on matrices. A matrix is a tuple of rows,
\* a vector a matrix of one column; a real matrix is the fraction num / den
\* with an integer matrix num and a positive integer den. Round-off is an
\* error matrix added to the numerator of a result in lowest terms.
\* ------------------------------------------------------------------------
KfMaxOps == 3

KfMaxDen == 16

MatMult(A, B) ==
    [r \in 1 .. Len(A) |-> [c \in 1 .. Len(B[1]) |->
        SumSeq([k \in 1 .. Len(B) |-> A[r][k] * B[k][c]])]]

GetTransposed(A) == [c \in 1 .. Len(A[1]) |-> [r \in 1 .. Len(A) |-> A[r][c]]]

\* a * A + b * B.
Combine(a, A, b, B) == [r \in 1 .. Len(A) |-> [c \in 1 .. Len(A[1]) |-> a * A[r][c] + b * B[r][c]]]

\* The same fraction in lowest terms.
Reduced(M) ==
    LET RECURSIVE Gcd(_, _)
        Gcd(a, b) == IF b = 0 THEN a ELSE Gcd(b, a % b)
        Abs(a) == IF a < 0 THEN 0 - a ELSE a
        RECURSIVE GcdAll(_, _)
        GcdAll(k, g) == IF k > Len(M.num) * Len(M.num[1]) THEN g
                        ELSE GcdAll(k + 1, Gcd(g, Abs(M.num[((k - 1) \div Len(M.num[1])) + 1][((k - 1) % Len(M.num[1])) + 1])))
        g == GcdAll(1, M.den)
    IN  [num |-> [r \in 1 .. Len(M.num) |-> [c \in 1 .. Len(M.num[1]) |-> M.num[r][c] \div g]],
         den |-> M.den \div g]

Symmetrize_Skip(M) == M

\* A(j,i) = A(i,j) = 0.5 * (A(j,i) + A(i,j)) for i < j.
Symmetrize(M) ==
    [num |-> [i \in 1 .. Len(M.num) |-> [j \in 1 .. Len(M.num) |->
                IF i = j THEN 2 * M.num[i][j] ELSE M.num[j][i] + M.num[i][j]]],
     den |-> 2 * M.den]

PosteriorEstimation_DataInP(x, P, H, R, z, E) ==
    LET PHt == MatMult(P.num, GetTransposed(H))
        S == [num |-> Combine(1, MatMult(H, PHt), P.den, R), den |-> P.den]
        y == Combine(x.den, z, 0 - 1, MatMult(H, x.num))
        raw == [num |-> Combine(S.num[1][1], P.num, 0 - y[1][1] * y[1][1], MatMult(PHt, GetTransposed(PHt))),
                den |-> P.den * S.num[1][1]]
    IN  [x |-> x, raw |-> Reduced(raw), P |-> Reduced(Symmetrize(raw))]

\* PosteriorEstimation, and the body of SolveFilter: y = z - H x,
\* S = H P H^t + R, x = x + P H^t S^{-1} y, P = P - P H^t S^{-1} H P,
\* Symmetrize(P). S has one or two rows; E is the round-off of P.
PosteriorEstimation(x, P, H, R, z, E) ==
    LET PHt == MatMult(P.num, GetTransposed(H))
        S == Symmetrize([num |-> Combine(1, MatMult(H, PHt), P.den, R), den |-> P.den])
        det == IF Len(S.num) = 1 THEN S.num[1][1]
               ELSE S.num[1][1] * S.num[2][2] - S.num[1][2] * S.num[2][1]
        adj == IF Len(S.num) = 1 THEN << <<1>> >>
               ELSE << <<S.num[2][2], 0 - S.num[1][2]>>, <<0 - S.num[2][1], S.num[1][1]>> >>
        y == Combine(x.den, z, 0 - 1, MatMult(H, x.num))
        gain == MatMult(PHt, adj)
        exact == Reduced([num |-> Combine(P.den * det, P.num, 0 - S.den, MatMult(gain, GetTransposed(PHt))),
                          den |-> P.den * P.den * det])
        raw == [num |-> Combine(1, exact.num, 1, E), den |-> exact.den]
    IN  [x |-> Reduced([num |-> Combine(P.den * det, x.num, S.den, MatMult(gain, y)),
                        den |-> x.den * P.den * det]),
         raw |-> raw,
         P |-> Reduced(Symmetrize(raw))]

\* UpdateState and "P_prior += Q": x = A x, P = A P A^t + Q.
UpdateState(x, P, A, Q) ==
    [x |-> [num |-> MatMult(A, x.num), den |-> x.den],
     P |-> [num |-> Combine(1, MatMult(A, MatMult(P.num, GetTransposed(A))), P.den, Q), den |-> P.den]]

\* KalmanFilter::Iterate.
KfIterate(x, P, A, Q, H, R, z, E) ==
    LET prior == UpdateState(x, P, A, Q)
    IN  PosteriorEstimation(prior.x, prior.P, H, R, z, E)

\* KalmanFilter::PropagateStateInverse with B the inverse of A: the LU
\* solves multiply by A. x = A x, P = A (A P)^t + Q, Symmetrize(P).
KfPropagateStateInverse(x, P, A, Q, E) ==
    LET exact == Reduced([num |-> Combine(1, MatMult(A, GetTransposed(MatMult(A, P.num))), P.den, Q),
                          den |-> P.den])
        raw == [num |-> Combine(1, exact.num, 1, E), den |-> exact.den]
    IN  [x |-> [num |-> MatMult(A, x.num), den |-> x.den],
         raw |-> raw,
         P |-> Reduced(Symmetrize(raw))]

\* The filters: the one of kalman_filter_test.cc (A = Q = H = R = P0 = I)
\* and one with a shear model, one sensor and correlated P0.
KalmanScenarios ==
    LET I == << <<1, 0>>, <<0, 1>> >>
    IN  { [A |-> I, Q |-> I, H |-> I, R |-> I, P0 |-> I],
          [A |-> << <<1, 1>>, <<0, 1>> >>, Q |-> I, H |-> << <<1, 0>> >>, R |-> << <<1>> >>,
           P0 |-> << <<2, 1>>, <<1, 2>> >>] }

\* Round-off errors of a covariance, and the observation vectors.
KfNoise == { << <<0, 0>>, <<0, 0>> >>, << <<0, 1>>, <<0, 0>> >> }

KfObs(H) == { [i \in 1 .. Len(H) |-> <<IF i = 1 THEN v ELSE 0>>] : v \in {0, 1} }

\* kf.ref is the same filter run from x = 0 on observations z = 0.
InitKalman ==
    /\ raw_conf = RawFor(WriteConf)
    /\ NotStarted
    /\ loader = Idle /\ euler = Idle /\ schwarz = Idle /\ bmatrix = Idle
    /\ \E sc \in KalmanScenarios, v \in {0, 1} :
          kf = [status |-> "run", sc |-> sc, ops |-> 0, iters |-> 0, exact |-> TRUE, last |-> "init",
                x |-> [num |-> << <<v>>, <<v>> >>, den |-> 1],
                P |-> [num |-> sc.P0, den |-> 1],
                raw |-> [num |-> sc.P0, den |-> 1],
                ref |-> [x |-> [num |-> << <<0>>, <<0>> >>, den |-> 1],
                         P |-> [num |-> sc.P0, den |-> 1]]]

\* kf.iters counts the calls of Iterate; kf.exact holds while no result had a
\* round-off error.
KfAfter(op, E, r, rr) ==
    [kf EXCEPT !.ops = @ + 1, !.last = op, !.x = r.x, !.P = r.P, !.raw = r.raw,
               !.iters = IF op = "iterate" THEN @ + 1 ELSE @,
               !.exact = @ /\ \A i, j \in 1 .. Len(E) : E[i][j] = 0,
               !.ref = [x |-> rr.x, P |-> rr.P]]

\* The next operation is followed while the fractions stay small.
KfCanStep ==
    /\ kf.status = "run" /\ kf.ops < KfMaxOps
    /\ kf.P.den <= KfMaxDen /\ kf.ref.P.den <= KfMaxDen
    /\ kf.x.den <= KfMaxDen * KfMaxDen /\ kf.ref.x.den <= KfMaxDen * KfMaxDen

KfDriverUnchanged ==
    /\ UNCHANGED <<loader, euler, schwarz, bmatrix>>
    /\ UNCHANGED writer_vars
    /\ UNCHANGED startup_vars
    /\ UNCHANGED <<conf, sensors, observations, rng_seed, contexts, state_field,
                   stencil_buf, temp_field, t, phase, done, stamp, calls,
                   start_ctx, snaps, written, out, stream_open>>

Iterate ==
    /\ KfCanStep
    /\ \E z \in KfObs(kf.sc.H), E \in KfNoise :
          kf' = KfAfter("iterate", E,
                    KfIterate(kf.x, kf.P, kf.sc.A, kf.sc.Q, kf.sc.H, kf.sc.R, z, E),
                    KfIterate(kf.ref.x, kf.ref.P, kf.sc.A, kf.sc.Q, kf.sc.H, kf.sc.R,
                              [i \in 1 .. Len(kf.sc.H) |-> <<0>>], E))
    /\ KfDriverUnchanged

Propagate ==
    /\ KfCanStep
    /\ \E E \in KfNoise :
          kf' = KfAfter("propagate", E,
                    KfPropagateStateInverse(kf.x, kf.P, kf.sc.A, kf.sc.Q, E),
                    KfPropagateStateInverse(kf.ref.x, kf.ref.P, kf.sc.A, kf.sc.Q, E))
    /\ KfDriverUnchanged

Solve ==
    /\ KfCanStep
    /\ \E z \in KfObs(kf.sc.H), E \in KfNoise :
          kf' = KfAfter("solve", E,
                    PosteriorEstimation(kf.x, kf.P, kf.sc.H, kf.sc.R, z, E),
                    PosteriorEstimation(kf.ref.x, kf.ref.P, kf.sc.H, kf.sc.R,
                                        [i \in 1 .. Len(kf.sc.H) |-> <<0>>], E))
    /\ KfDriverUnchanged

NextKalman == Iterate \/ Propagate \/ Solve

SpecKalman == InitKalman /\ [][NextKalman]_vars

\* ------------------------------------------------------------------------
\* EulerFiniteDifferenceModel and EulerFiniteDifferenceDirect (part_001).
\* The coefficients are integers over the common denominator "one":
\* diffmult = dm / one, advmult_x = ax / one, advmult_y = ay / one, so that
\* one update multiplies the scale of an integer state by "one".
\* ------------------------------------------------------------------------
EulerMaxSize == 4

EulerMaxIter == 3

\* The triplets (row, column, value) in the order MakeModelMatrix sets them;
\* Matrix<SizeX,SizeY>::sub2ind(x, y) is taken as x * SizeY + y.
MakeModelMatrix(SizeX, SizeY, dm, ax, ay, one) ==
    LET ind(x, y) == x * SizeY + y
        Five(x, y, c1, c2, c3, c4, kx, ky) ==
            << <<ind(x, y), c1, dm - kx * ax>>, <<ind(x, y), c2, dm + kx * ax>>,
               <<ind(x, y), c3, dm - ky * ay>>, <<ind(x, y), c4, dm + ky * ay>>,
               <<ind(x, y), ind(x, y), one - 4 * dm>> >>
        Inner(x, y) == Five(x, y, ind(x + 1, y), ind(x - 1, y), ind(x, y + 1), ind(x, y - 1), 1, 1)
        XLow(y) == Five(0, y, ind(1, y), ind(0, y), ind(0, y + 1), ind(0, y - 1), 2, 1)
        XHigh(y) == Five(SizeX - 1, y, ind(SizeX - 1, y), ind(SizeX - 2, y),
                         ind(SizeX - 1, y + 1), ind(SizeX - 1, y - 1), 2, 1)
        YLow(x) == Five(x, 0, ind(x + 1, 0), ind(x - 1, 0), ind(x, 1), ind(x, 0), 1, 2)
        YHigh(x) == Five(x, SizeY - 1, ind(x + 1, SizeY - 1), ind(x - 1, SizeY - 1),
                         ind(x, SizeY - 1), ind(x, SizeY - 2), 1, 2)
        Min(a, b) == IF a < b THEN a ELSE b
        Max(a, b) == IF a > b THEN a ELSE b
        Corner(x, y) == Five(x, y, ind(Min(x + 1, SizeX - 1), y), ind(Max(x - 1, 0), y),
                             ind(x, Min(y + 1, SizeY - 1)), ind(x, Max(y - 1, 0)), 2, 2)
        RECURSIVE Flat(_)
        Flat(q) == IF q = << >> THEN << >> ELSE q[1] \o Flat(Tail(q))
    IN  Flat([k \in 1 .. (SizeX - 2) * (SizeY - 2) |->
                 Inner(1 + ((k - 1) \div (SizeY - 2)), 1 + ((k - 1) % (SizeY - 2)))])
        \o Flat([y \in 1 .. SizeY - 2 |-> XLow(y)])
        \o Flat([y \in 1 .. SizeY - 2 |-> XHigh(y)])
        \o Flat([x \in 1 .. SizeX - 2 |-> YLow(x)])
        \o Flat([x \in 1 .. SizeX - 2 |-> YHigh(x)])
        \o Corner(0, 0) \o Corner(0, SizeY - 1) \o Corner(SizeX - 1, SizeY - 1) \o Corner(SizeX - 1, 0)

\* SpMatrix::SetFromTriplets: the n x n matrix whose entry (r, c) is the sum
\* of the values of the triplets at (r, c).
SetFromTriplets(triplets, n) ==
    [r \in 1 .. n |-> [c \in 1 .. n |->
        SumSeq([k \in 1 .. Len(triplets) |->
                   IF triplets[k][1] = r - 1 /\ triplets[k][2] = c - 1 THEN triplets[k][3] ELSE 0])]]

EulerFiniteDifferenceDirect_Central(SizeX, SizeY, state, dm, ax, ay, one) ==
    [n \in DOMAIN state |->
        LET i == n[1]
            j == n[2]
            ip == IF i + 1 < SizeX - 1 THEN i + 1 ELSE SizeX - 1
            jp == IF j + 1 < SizeY - 1 THEN j + 1 ELSE SizeY - 1
            im == IF i - 1 > 0 THEN i - 1 ELSE 0
            jm == IF j - 1 > 0 THEN j - 1 ELSE 0
        IN  one * state[n]
            + (state[<<ip, j>>] + state[<<im, j>>] + state[<<i, jp>>] + state[<<i, jm>>] - 4 * state[n]) * dm
            - ax * (state[<<ip, j>>] - state[<<im, j>>])
            - ay * (state[<<i, jp>>] - state[<<i, jm>>])]

EulerFiniteDifferenceDirect(SizeX, SizeY, state, dm, ax, ay, one) ==
    [n \in DOMAIN state |->
        LET i == n[1]
            j == n[2]
            ip == IF i + 1 < SizeX - 1 THEN i + 1 ELSE SizeX - 1
            jp == IF j + 1 < SizeY - 1 THEN j + 1 ELSE SizeY - 1
            im == IF i - 1 > 0 THEN i - 1 ELSE 0
            jm == IF j - 1 > 0 THEN j - 1 ELSE 0
            coef_x == (IF 0 < i /\ i + 1 < SizeX THEN 1 ELSE 2) * ax
            coef_y == (IF 0 < j /\ j + 1 < SizeY THEN 1 ELSE 2) * ay
        IN  one * state[n]
            + (state[<<ip, j>>] + state[<<im, j>>] + state[<<i, jp>>] + state[<<i, jm>>] - 4 * state[n]) * dm
            - coef_x * (state[<<ip, j>>] - state[<<im, j>>])
            - coef_y * (state[<<i, jp>>] - state[<<i, jm>>])]

\* TestEulerFiniteDifference before the loop: a grid size, a flow and a state
\* (every unit impulse and one mixed state); state is the field unrolled into
\* a vector, state2 the field on the grid.
InitEuler ==
    /\ raw_conf = RawFor(WriteConf)
    /\ NotStarted
    /\ loader = Idle /\ kf = Idle /\ schwarz = Idle /\ bmatrix = Idle
    /\ \E SizeX \in 3 .. EulerMaxSize, SizeY \in 3 .. EulerMaxSize,
          flow \in {<<1, 0>>, <<0, 1>>, <<0 - 1, 2>>}, hot \in 0 .. EulerMaxSize * EulerMaxSize :
          /\ hot <= SizeX * SizeY
          /\ LET f == [n \in (0 .. SizeX - 1) \X (0 .. SizeY - 1) |->
                         IF hot = SizeX * SizeY THEN 1 + n[1] + 2 * n[2]
                         ELSE IF n[1] * SizeY + n[2] = hot THEN 1 ELSE 0]
             IN  euler = [status |-> "run", SizeX |-> SizeX, SizeY |-> SizeY, iterNo |-> 0,
                          dm |-> 1, ax |-> flow[1], ay |-> flow[2], one |-> 8, count |-> 0,
                          state |-> [k \in 1 .. SizeX * SizeY |-> <<f[<<(k - 1) \div SizeY, (k - 1) % SizeY>>]>>],
                          state2 |-> f]

\* One pass of the loop: state <- M * state with the matrix of
\* MakeModelMatrix, state2 <- EulerFiniteDifferenceDirect(state2). The
\* covariance of the test is not compared and is left out.
EulerIteration ==
    /\ euler.status = "run"
    /\ euler.iterNo < EulerMaxIter
    /\ LET triplets == MakeModelMatrix(euler.SizeX, euler.SizeY, euler.dm, euler.ax, euler.ay, euler.one)
           M == SetFromTriplets(triplets, euler.SizeX * euler.SizeY)
       IN  euler' = [euler EXCEPT
                       !.iterNo = @ + 1,
                       !.count = Len(triplets),
                       !.state = MatMult(M, euler.state),
                       !.state2 = EulerFiniteDifferenceDirect(euler.SizeX, euler.SizeY, euler.state2,
                                                              euler.dm, euler.ax, euler.ay, euler.one)]
    /\ UNCHANGED <<loader, kf, schwarz, bmatrix>>
    /\ UNCHANGED writer_vars
    /\ UNCHANGED startup_vars
    /\ UNCHANGED <<conf, sensors, observations, rng_seed, contexts, state_field,
                   stencil_buf, temp_field, t, phase, done, stamp, calls,
                   start_ctx, snaps, written, out, stream_open>>

SpecEuler == InitEuler /\ [][EulerIteration]_vars

\* ------------------------------------------------------------------------
\* SchwarzUpdate (part_002): the borders of next_domain[idx] on the inflow
\* sides are copied from the neighbours in curr_domain.
\* ------------------------------------------------------------------------
\* The four UpdBoundary calls in the order Left, Right, Down, Up. The
\* gradient term is compiled out, so the flux is the flow.
SchwarzUpdate(idx, curr_domain, next_domain, flow) ==
    LET is_outer == [Left |-> idx[1] = 0, Right |-> idx[1] = NumX - 1,
                     Down |-> idx[2] = 0, Up |-> idx[2] = NumY - 1]
        normal == [Left |-> <<0 - 1, 0>>, Right |-> <<1, 0>>, Down |-> <<0, 0 - 1>>, Up |-> <<0, 1>>]
        remote_idx == [dir \in Sides |-> <<idx[1] + normal[dir][1], idx[2] + normal[dir][2]>>]
        inflow == [dir \in Sides |->
                     ~is_outer[dir] /\ normal[dir][1] * flow[1] + normal[dir][2] * flow[2] < 0]
        UpdBoundary(cell, dir) ==
            IF inflow[dir]
            THEN setBoundary(cell, dir, getBoundary(curr_domain[remote_idx[dir]],
                                                    curr_domain[remote_idx[dir]].active, Facing[dir]))
            ELSE cell
    IN  [border |-> [outer |-> is_outer, inflow |-> inflow],
         next_domain |-> [next_domain EXCEPT ![idx] =
             UpdBoundary(UpdBoundary(UpdBoundary(UpdBoundary(next_domain[idx], "Left"), "Right"), "Down"), "Up")]]

\* Number of time steps and largest number of sub-iterations of the Schwarz unit.
SchwarzNt == 2
SchwarzMaxNschwarz == 2

\* Flow(conf, t_discrete) of the unit: the vector of time step discrete_time.
Flow_Table(flows, discrete_time) == flows[discrete_time]

FlowSet == {0 - 1, 0, 1} \X {0 - 1, 0, 1}

\* The flow a routine hands to SchwarzUpdate when only the routine without
\* sensors recomputes it.
RoutineFlow_KalmanNeverRefreshed(kalman, sub_iter, ctx_flow, fresh) ==
    IF kalman THEN ctx_flow ELSE fresh

\* The flow a routine hands to SchwarzUpdate: SubdomainRoutine recomputes
\* ctx.flow at sub_iter = 0 only and uses the stored one otherwise,
\* SubdomainRoutineNoSensors recomputes it in every call.
RoutineFlow(kalman, sub_iter, ctx_flow, fresh) ==
    IF kalman /\ sub_iter # 0 THEN ctx_flow ELSE fresh

\* Two grids of fine sub-domains whose nodes all hold different values, a flow
\* vector for every time step and the sub-domains that have sensors.
InitSchwarz ==
    /\ raw_conf = RawFor(WriteConf)
    /\ NotStarted
    /\ loader = Idle /\ kf = Idle /\ euler = Idle /\ bmatrix = Idle
    /\ \E flows \in [0 .. SchwarzNt - 1 -> FlowSet], base \in {0, 1},
          Nsub \in 1 .. SchwarzMaxNschwarz,
          kalman \in {{}, {<<0, 0>>, <<NumX - 1, NumY - 1>>}, Idx} :
          LET Field(shift) ==
                [idx \in Idx |->
                    WithLayer(ZeroCell(LayerFine), LayerFine,
                        [p \in Nodes(LayerFine) |->
                            shift + 100 * (idx[1] * NumY + idx[2]) + 10 * p[1] + p[2]])]
          IN  schwarz = [status |-> "run", flow |-> flows[0], curr_domain |-> Field(1000 * base),
                         next_domain |-> Field(5000), updated |-> {},
                         border |-> [idx \in Idx |-> Idle],
                         flows |-> flows, Nschwarz |-> Nsub, timestamp |-> 0,
                         kalman |-> kalman,
                         ctx_flow |-> [idx \in Idx |-> <<0, 0>>]]

\* The routine of sub-domain idx at the current logical time: the flow of the
\* context, then SchwarzUpdate with it.
SchwarzStep(idx) ==
    /\ schwarz.status = "run"
    /\ idx \notin schwarz.updated
    /\ LET t_discrete == schwarz.timestamp \div schwarz.Nschwarz
           sub_iter == schwarz.timestamp % schwarz.Nschwarz
           flow == RoutineFlow(idx \in schwarz.kalman, sub_iter,
                               schwarz.ctx_flow[idx], Flow_Table(schwarz.flows, t_discrete))
           r == SchwarzUpdate(idx, schwarz.curr_domain, schwarz.next_domain, flow)
       IN  schwarz' = [schwarz EXCEPT
                          !.next_domain = r.next_domain,
                          !.updated = schwarz.updated \cup {idx},
                          !.border = [i \in Idx |-> IF i = idx THEN r.border ELSE schwarz.border[i]],
                          !.ctx_flow = [i \in Idx |-> IF i = idx THEN flow ELSE schwarz.ctx_flow[i]]]
    /\ UNCHANGED <<loader, kf, euler, bmatrix>>
    /\ UNCHANGED writer_vars
    /\ UNCHANGED startup_vars
    /\ UNCHANGED <<conf, sensors, observations, rng_seed, contexts, state_field,
                   stencil_buf, temp_field, t, phase, done, stamp, calls,
                   start_ctx, snaps, written, out, stream_open>>

\* The stencil moves on to the next logical time once every sub-domain has
\* been processed: the returned sub-domains are the state of the next step.
SchwarzAdvance ==
    /\ schwarz.status = "run"
    /\ schwarz.updated = Idx
    /\ schwarz.timestamp + 1 < SchwarzNt * schwarz.Nschwarz
    /\ schwarz' = [schwarz EXCEPT
                      !.timestamp = schwarz.timestamp + 1,
                      !.flow = Flow_Table(schwarz.flows,
                                          (schwarz.timestamp + 1) \div schwarz.Nschwarz),
                      !.curr_domain = schwarz.next_domain,
                      !.updated = {}]
    /\ UNCHANGED <<loader, kf, euler, bmatrix>>
    /\ UNCHANGED writer_vars
    /\ UNCHANGED startup_vars
    /\ UNCHANGED <<conf, sensors, observations, rng_seed, contexts, state_field,
                   stencil_buf, temp_field, t, phase, done, stamp, calls,
                   start_ctx, snaps, written, out, stream_open>>

NextSchwarz ==
    \/ \E idx \in Idx : SchwarzStep(idx)
    \/ SchwarzAdvance

SpecSchwarz == InitSchwarz /\ [][NextSchwarz]_vars

\* ------------------------------------------------------------------------
\* InverseModelMatrix on exact fractions <<numerator, denominator>>: the time
\* step of InitDependentParams and the entries of an interior row of B.
\* ------------------------------------------------------------------------
\* Largest dt_divisor (number of Schwarz sub-iterations) tried.
MaxDivisor == 3

\* The fraction n / d in lowest terms with a positive denominator.
Rat(n, d) ==
    LET RECURSIVE Gcd(_, _)
        Gcd(a, b) == IF b = 0 THEN a ELSE Gcd(b, a % b)
        g == Gcd(IF n < 0 THEN 0 - n ELSE n, IF d < 0 THEN 0 - d ELSE d)
    IN  IF d < 0 THEN <<(0 - n) \div g, (0 - d) \div g>> ELSE <<n \div g, d \div g>>

RatAdd(a, b) == Rat(a[1] * b[2] + b[1] * a[2], a[2] * b[2])
RatMul(a, b) == Rat(a[1] * b[1], a[2] * b[2])
RatAbs(a) == <<IF a[1] < 0 THEN 0 - a[1] ELSE a[1], a[2]>>

StableTimeStep_NoAdvectionLimit(D, dx, dy, dt_base, max_vx, max_vy) ==
    LET RatMin(a, b) == IF RatLeq(a, b) THEN a ELSE b
        RatInv(a) == <<a[2], a[1]>>
    IN  RatMin(dt_base,
               RatMul(RatMin(RatMul(dx, dx), RatMul(dy, dy)), RatInv(RatMul(<<2, 1>>, D))))

\* dt = min(dt_base, min(min(dx^2, dy^2) / (2 D), 1 / (|max_vx|/dx + |max_vy|/dy)))
\* for D, dx, dy > 0; TINY is below every positive fraction of the model, so
\* with max_vx = max_vy = 0 the third bound is above every dt_base.
StableTimeStep(D, dx, dy, dt_base, max_vx, max_vy) ==
    LET RatMin(a, b) == IF RatLeq(a, b) THEN a ELSE b
        RatInv(a) == <<a[2], a[1]>>
        diffusive == RatMul(RatMin(RatMul(dx, dx), RatMul(dy, dy)), RatInv(RatMul(<<2, 1>>, D)))
        speed == RatAdd(RatMul(RatAbs(max_vx), RatInv(dx)), RatMul(RatAbs(max_vy), RatInv(dy)))
    IN  IF speed[1] = 0 THEN RatMin(dt_base, diffusive)
        ELSE RatMin(dt_base, RatMin(diffusive, RatInv(speed)))

\* The five entries B sets in the row of an interior point (x, y): B(i,i),
\* and the entries of (x-1, y), (x+1, y), (x, y-1), (x, y+1).
InverseModelRow(D, dx, dy, conf_dt, flow, dt_divisor) ==
    LET RatInv(a) == <<a[2], a[1]>>
        RatNeg(a) == <<0 - a[1], a[2]>>
        dt == RatMul(conf_dt, <<1, IF dt_divisor > 0 THEN dt_divisor ELSE 1>>)
        rho_x == RatMul(RatMul(D, dt), RatInv(RatMul(dx, dx)))
        rho_y == RatMul(RatMul(D, dt), RatInv(RatMul(dy, dy)))
        v0x == RatMul(RatMul(<<2, 1>>, dx), RatInv(dt))
        v0y == RatMul(RatMul(<<2, 1>>, dy), RatInv(dt))
        vx == RatMul(flow[1], RatInv(v0x))
        vy == RatMul(flow[2], RatInv(v0y))
    IN  [diag |-> RatAdd(<<1, 1>>, RatMul(<<2, 1>>, RatAdd(rho_x, rho_y))),
         west |-> RatAdd(RatNeg(vx), RatNeg(rho_x)),
         east |-> RatAdd(vx, RatNeg(rho_x)),
         south |-> RatAdd(RatNeg(vy), RatNeg(rho_y)),
         north |-> RatAdd(vy, RatNeg(rho_y)),
         dt |-> dt]

\* Configurations InitDependentParams accepts (D, dx, dy, dt > 0), with the
\* time step it stores.
InitInverseModel ==
    /\ raw_conf = RawFor(WriteConf)
    /\ NotStarted
    /\ loader = Idle /\ kf = Idle /\ euler = Idle /\ schwarz = Idle
    /\ \E D \in {<<1, 8>>, <<1, 1>>, <<4, 1>>}, dx \in {<<1, 1>>, <<2, 1>>},
          dy \in {<<1, 1>>, <<2, 1>>}, dt_base \in {<<1, 4>>, <<1, 1>>},
          max_vx \in {<<0, 1>>, <<1, 1>>, <<0 - 2, 1>>}, max_vy \in {<<0, 1>>, <<1, 1>>} :
          bmatrix = [status |-> "conf", D |-> D, dx |-> dx, dy |-> dy,
                     max_vx |-> max_vx, max_vy |-> max_vy,
                     dt |-> StableTimeStep(D, dx, dy, dt_base, max_vx, max_vy),
                     flow |-> <<<<0, 1>>, <<0, 1>>>>, dt_divisor |-> 0,
                     row |-> << >>]

\* One call of InverseModelMatrix with a flow of the flow model, whose
\* components are max_vx and max_vy times a sine.
BuildInverseModel ==
    /\ bmatrix.status = "conf"
    /\ \E sx, sy \in {<<0 - 1, 1>>, <<0, 1>>, <<1, 2>>, <<1, 1>>}, dt_divisor \in 0 .. MaxDivisor :
          LET flow == <<RatMul(bmatrix.max_vx, sx), RatMul(bmatrix.max_vy, sy)>>
          IN  bmatrix' = [bmatrix EXCEPT !.status = "built", !.flow = flow,
                                         !.dt_divisor = dt_divisor,
                                         !.row = InverseModelRow(bmatrix.D, bmatrix.dx, bmatrix.dy,
                                                                 bmatrix.dt, flow, dt_divisor)]
    /\ UNCHANGED <<loader, kf, euler, schwarz>>
    /\ UNCHANGED writer_vars
    /\ UNCHANGED startup_vars
    /\ UNCHANGED <<conf, sensors, observations, rng_seed, contexts, state_field,
                   stencil_buf, temp_field, t, phase, done, stamp, calls,
                   start_ctx, snaps, written, out, stream_open>>

SpecInverseModel == InitInverseModel /\ [][BuildInverseModel]_vars

\* ------------------------------------------------------------------------
\* Properties of the driver.
\* ------------------------------------------------------------------------
HasSensors(idx) == Len(sensors[idx]) > 0

Grids == {state_field, stencil_buf, temp_field}

\* The sides of sub-domain idx that lie on the outer face of the lattice.
OuterSides(idx) ==
    {side \in Sides :
        \/ side = "Left" /\ idx[1] = 0
        \/ side = "Right" /\ idx[1] = NumX - 1
        \/ side = "Down" /\ idx[2] = 0
        \/ side = "Up" /\ idx[2] = NumY - 1}

\* Node p of the given layer lies on the given side.
OnBorder(p, layer, side) ==
    \/ side = "Left" /\ p[1] = 0
    \/ side = "Right" /\ p[1] = getLayerSize(layer).x - 1
    \/ side = "Down" /\ p[2] = 0
    \/ side = "Up" /\ p[2] = getLayerSize(layer).y - 1

\* Node p of the active layer of idx is on no outer side of the lattice.
FreeNode(idx, p) ==
    \A side \in OuterSides(idx) : ~OnBorder(p, temp_field[idx].active, side)

\* The kernel output of the last call on idx at node p (before the clamps).
KernelOut(idx, p) == contexts[idx].field[<<p[1] + 1, p[2] + 1>>]

\* C1: after every call of a per-sub-domain routine, Kalman branch or
\* no-sensor branch, every node of every layer of the returned sub-domain
\* state is >= 0 (and so is every node of the grids the stencil keeps).
C1_NonNegativity ==
    \A g \in Grids : \A idx \in Idx : \A l \in Layers : \A p \in Nodes(l) :
        g[idx].data[l][p] >= 0

\* A negative kernel output at a node no Dirichlet side covers was clamped to
\* zero, in a Kalman sub-domain and in a sub-domain without sensors.
C1_Witness ==
    \E i, j \in Idx :
        /\ HasSensors(i) /\ ~HasSensors(j)
        /\ stamp[i] >= 0 /\ stamp[j] >= 0
        /\ \E p \in Nodes(LayerFine) :
              FreeNode(i, p) /\ KernelOut(i, p) < 0
              /\ temp_field[i].data[LayerFine][p] = 0
        /\ \E p \in Nodes(LayerLow) :
              FreeNode(j, p) /\ KernelOut(j, p) < 0
              /\ temp_field[j].data[LayerLow][p] = 0

\* C2: in the initial state and after every update, every node of the active
\* layer that lies on an outer side of the lattice is exactly 0.
C2_OuterDirichlet ==
    \A g \in Grids : \A idx \in Idx : \A side \in OuterSides(idx) :
        \A p \in Nodes(g[idx].active) :
            OnBorder(p, g[idx].active, side) => g[idx].data[g[idx].active][p] = 0

\* The kernel put a positive value on an outer Up border and on an outer
\* Left border, and the returned state holds 0 there.
C2_Witness ==
    \E i, j \in Idx :
        /\ "Up" \in OuterSides(i) /\ "Left" \in OuterSides(j)
        /\ stamp[i] >= 0 /\ stamp[j] >= 0
        /\ \E p \in Nodes(temp_field[i].active) :
              /\ OnBorder(p, temp_field[i].active, "Up")
              /\ KernelOut(i, p) > 0
              /\ temp_field[i].data[temp_field[i].active][p] = 0
        /\ \E p \in Nodes(temp_field[j].active) :
              /\ OnBorder(p, temp_field[j].active, "Left")
              /\ KernelOut(j, p) > 0
              /\ temp_field[j].data[temp_field[j].active][p] = 0

\* C3: in every state of the run a sub-domain with sensors has active layer
\* Fine and one without has active layer Low, in the grid the routines read
\* and in the grid they write; no assertion of a routine fails.
C3_ResolutionPolicy ==
    /\ phase # "aborted"
    /\ \A idx \in Idx :
          LET want == IF HasSensors(idx) THEN LayerFine ELSE LayerLow
          IN  state_field[idx].active = want /\ temp_field[idx].active = want

\* Both branches have run at least twice.
C3_Witness ==
    \E i, j \in Idx : calls[i].kalman >= 2 /\ calls[j].nosensors >= 2

\* The grid a routine writes to when nothing else has been written.
CanonGrid == [i \in Idx |-> InitCell(sensors, i)]

\* C4: the cell a routine returns at step t is a function of the grid at the
\* start of the step and of its own context at the start of the step: it is
\* the same whichever tasks of the step ran before or after it.
C4_InterleavingIndependence ==
    phase \in {"update", "observe"} =>
        \A idx \in Idx :
            stamp[idx] = t =>
                LET r == UpdateLambda(idx, IsBoundary(idx), t, state_field,
                                      CanonGrid, start_ctx[idx])
                IN  /\ temp_field[idx] = r.next_state[idx]
                    /\ stencil_buf[idx] = r.next_state[idx]
                    /\ contexts[idx] = r.ctx

Adjacent(i, j) ==
    \/ i[1] = j[1] /\ (i[2] - j[2]) \in {0 - 1, 1}
    \/ i[2] = j[2] /\ (i[1] - j[1]) \in {0 - 1, 1}

\* All tasks of a step t >= 1 have run and two adjacent sub-domains, one at
\* each resolution, both changed their cell in this step.
C4_Witness ==
    /\ phase = "update" /\ done = Idx /\ t >= 1
    /\ \E i, j \in Idx :
          /\ Adjacent(i, j) /\ HasSensors(i) /\ ~HasSensors(j)
          /\ temp_field[i] # state_field[i]
          /\ temp_field[j] # state_field[j]

\* A value no node of the run holds.
Poison == Unit + 1

\* The side of sub-domain j that faces its neighbour idx.
FacingSide(j, idx) ==
    CASE j[1] = idx[1] - 1 -> "Right"
      [] j[1] = idx[1] + 1 -> "Left"
      [] j[2] = idx[2] - 1 -> "Up"
      [] OTHER -> "Down"

\* The grid with everything replaced that the task of idx may not read: of a
\* 4-adjacent neighbour only the strip facing idx, at the active layer of
\* idx, is kept; all other nodes of all other sub-domains are poisoned and
\* their layer tags changed.
Masked(dom, idx) ==
    [j \in Idx |->
        IF j = idx THEN dom[j]
        ELSE [active |-> LayerLow + LayerFine - dom[j].active,
              data |-> [l \in Layers |-> [p \in Nodes(l) |->
                  IF Adjacent(j, idx) /\ l = dom[idx].active
                     /\ OnBorder(p, l, FacingSide(j, idx))
                  THEN dom[j].data[l][p] ELSE Poison]]]]

ReadFootprint ==
    phase = "update" =>
        \A idx \in Idx \ done :
            LET r1 == UpdateLambda(idx, IsBoundary(idx), t, state_field,
                                   temp_field, contexts[idx])
                r2 == UpdateLambda(idx, IsBoundary(idx), t, Masked(state_field, idx),
                                   temp_field, contexts[idx])
            IN  /\ contexts[idx].idx = idx
                /\ r1.ctx = r2.ctx
                /\ r1.next_state[idx] = r2.next_state[idx]

WriteFootprint ==
    \A idx \in Idx :
        stamp'[idx] # stamp[idx] =>
            /\ state_field' = state_field
            /\ \A j \in Idx \ {idx} :
                  contexts'[j] = contexts[j] /\ temp_field'[j] = temp_field[j]

\* C5: the task of sub-domain idx changes only contexts[idx] (with
\* ctx.idx = idx) and next_state[idx], and what it computes depends on other
\* sub-domains only through the strips facing idx of its 4-adjacent
\* neighbours: not on their interiors, on diagonal neighbours or on other
\* contexts.
C5_AccessFootprint == [](ReadFootprint) /\ [][WriteFootprint]_vars

\* A task is about to run at a step t >= 1 next to a neighbour whose cell has
\* a non-zero node off the facing strip.
C5_Witness ==
    /\ phase = "update" /\ t >= 1
    /\ \E idx \in Idx \ done : \E j \in Idx :
          /\ Adjacent(j, idx)
          /\ \E p \in Nodes(state_field[idx].active) :
                /\ ~OnBorder(p, state_field[idx].active, FacingSide(j, idx))
                /\ state_field[j].data[state_field[idx].active][p] # 0

\* C6: a routine of step t runs only when every routine of step t - 1 has
\* completed, and while the observer of step t runs every sub-domain has
\* completed its routine of step t and the stencil holds the cell it returned.
C6_BarrierOrdering ==
    /\ phase = "update" =>
          \A idx \in Idx : stamp[idx] = IF idx \in done THEN t ELSE t - 1
    /\ phase = "observe" =>
          \A idx \in Idx : stamp[idx] = t /\ stencil_buf[idx] = temp_field[idx]

\* The observer of a step t >= 1 is writing.
C6_Witness == phase = "observe" /\ t >= 1 /\ done # {}

TotalCalls(idx) == calls[idx].kalman + calls[idx].nosensors

\* C7: the loop makes exactly Nt * Nschwarz steps with exactly one routine
\* call per step and sub-domain, always of the branch the sensors select,
\* then closes the stream and terminates; every run terminates.
C7_FixedSchedule ==
    /\ [](\A idx \in Idx :
            /\ TotalCalls(idx) = IF phase = "update" /\ idx \notin done THEN t ELSE
                                 IF phase = "update" THEN t + 1 ELSE
                                 IF phase = "observe" THEN t + 1 ELSE t
            /\ (HasSensors(idx) => calls[idx].nosensors = 0)
            /\ (~HasSensors(idx) => calls[idx].kalman = 0))
    /\ [](phase = "done" =>
            /\ t = conf.Nt * conf.Nschwarz
            /\ \A idx \in Idx : TotalCalls(idx) = conf.Nt * conf.Nschwarz
            /\ ~stream_open)
    /\ [](phase # "done" => stream_open)
    /\ <>(phase = "done")

\* A run with both branches has terminated.
C7_Witness ==
    /\ phase = "done" /\ ~stream_open
    /\ \E i, j \in Idx : calls[i].kalman > 0 /\ calls[j].nosensors > 0

\* The selection rule in exact integer arithmetic (floor quotients).
Selected(c, time) ==
    /\ time % c.Nschwarz = 0
    /\ LET t_step == time \div c.Nschwarz
       IN  ((c.Nwrite - 1) * (t_step - 1)) \div (c.Nt - 1)
              # ((c.Nwrite - 1) * t_step) \div (c.Nt - 1)

\* C8: a snapshot is emitted at logical time t iff t mod Nschwarz = 0 and
\* floor((Nwrite-1)(t_step-1)/(Nt-1)) # floor((Nwrite-1) t_step/(Nt-1)) with
\* t_step = t / Nschwarz, and the time index written is t_step.
C8_SelectionRule ==
    /\ snaps = {u \in 0 .. t - 1 : Selected(conf, u)}
    /\ written = {u \div conf.Nschwarz : u \in snaps}

\* A finished run with sub-iterations in which a slice with t mod Nschwarz = 0
\* was skipped and a later one was selected.
C8_Witness ==
    /\ phase = "done" /\ conf.Nschwarz >= 2 /\ conf.Nwrite < conf.Nt
    /\ \E u, v \in 0 .. t - 1 :
          /\ u < v /\ u % conf.Nschwarz = 0
          /\ u \notin snaps /\ v \in snaps

\* The number of emitted time indices below e.
Rank(e) == Cardinality({u \in written : u < e})

\* C9: a complete run with Nt >= Nwrite >= 2 emits exactly Nwrite distinct
\* time indices within [0, Nt-1], the k-th being the first index at or after
\* k (Nt-1)/(Nwrite-1); for Nt = 100, Nschwarz = 3, Nwrite = 11 there are 11
\* and the k-th is within 1 of 10 k.
C9_SnapshotCount ==
    (phase \in {"closing", "done"} /\ conf.Nt >= conf.Nwrite) =>
        /\ Cardinality(written) = conf.Nwrite
        /\ written \subseteq 0 .. conf.Nt - 1
        /\ \A e \in written :
              /\ Rank(e) * (conf.Nt - 1) <= (conf.Nwrite - 1) * e
              /\ (conf.Nwrite - 1) * e < Rank(e) * (conf.Nt - 1) + conf.Nwrite - 1
        /\ conf = Scenario =>
              /\ Cardinality(written) = 11
              /\ \A e \in written : e - 10 * Rank(e) \in {0 - 1, 0, 1}

\* The quoted run has finished and its last index is 99, not 100.
C9_Witness ==
    /\ phase = "done" /\ conf = Scenario
    /\ written = {0, 10, 20, 30, 40, 50, 60, 70, 80, 90, 99}

\* The value of global fine node (gx, gy) in a grid: the node of the fine
\* layer, or of the coarse node that covers it when the sub-domain is coarse.
FineSize == getLayerSize(LayerFine)

FineValue(grid, gx, gy) ==
    LET idx == <<gx \div FineSize.x, gy \div FineSize.y>>
        loc == <<gx % FineSize.x, gy % FineSize.y>>
        cell == grid[idx]
    IN  IF cell.active = LayerFine THEN cell.data[LayerFine][loc]
        ELSE cell.data[LayerLow][<<loc[1] \div RefineFactor, loc[2] \div RefineFactor>>]

GlobalNodes == (0 .. NumX * FineSize.x - 1) \X (0 .. NumY * FineSize.y - 1)

ExpectedRecords(ts, grid) ==
    { <<ts, g[1], g[2], FineValue(grid, g[1], g[2])>> : g \in GlobalNodes }

\* The grid that holds the cells returned at step ts, for the last two
\* steps: the buffers are swapped at the end of every step.
SnapGrid(ts) == IF (t - ts) % 2 = 1 THEN state_field ELSE stencil_buf

\* C10: every group of four floats in the stream is the record
\* (t_step, global_x, global_y, value) of one node of the global fine grid of
\* an emitted snapshot (coarse sub-domains refined), no record occurs twice,
\* an incomplete group is the beginning of the record of the writer inside
\* the atomic operation, and when the observer has finished every snapshot
\* has exactly one record per global fine node.
C10_ResultRecords ==
    /\ \A r \in BagToSet(out) :
          /\ CopiesIn(r, out) = 1
          /\ r[1] \in {0, 1}
          /\ <<r[2], r[3]>> \in GlobalNodes
          /\ r[4] = FineValue(SnapGrid(r[1]), r[2], r[3])
    /\ tail # << >> =>
          \E idx \in Idx :
              /\ wr[idx].in
              /\ tail = SubSeq(WriterRecord(t, idx, stencil_buf[idx], conf.Nschwarz,
                                            NodeAt(stencil_buf[idx], wr[idx].node)),
                               1, wr[idx].k)
    /\ phase \in {"closing", "done"} =>
          /\ tail = << >>
          /\ BagToSet(out) = ExpectedRecords(0, SnapGrid(0)) \cup ExpectedRecords(1, SnapGrid(1))
          /\ BagCardinality(out) = 2 * Cardinality(GlobalNodes)

\* Two writers, one of a coarse sub-domain with a non-zero node, are both
\* part-way through their sub-domain and one is inside a record.
C10_Witness ==
    /\ phase = "observe"
    /\ \E i, j \in Idx :
          /\ i # j /\ ~HasSensors(j)
          /\ wr[i].node > 0 /\ wr[i].in /\ wr[i].k = 2
          /\ wr[j].node > 0 /\ wr[j].node < NumNodes(stencil_buf[j])
          /\ \E p \in Nodes(LayerLow) : stencil_buf[j].data[LayerLow][p] # 0

\* Element k of the halo strip of an extended matrix on the given side.
HaloAt(field, layer, side, k) ==
    LET Sx == getLayerSize(layer).x
        Sy == getLayerSize(layer).y
    IN  CASE side = "Left" -> field[<<0, k + 1>>]
          [] side = "Right" -> field[<<Sx + 1, k + 1>>]
          [] side = "Down" -> field[<<k + 1, 0>>]
          [] OTHER -> field[<<k + 1, Sy + 1>>]

\* The sub-domain across the given side of idx.
PeerOf(idx, side) ==
    CASE side = "Left" -> <<idx[1] - 1, idx[2]>>
      [] side = "Right" -> <<idx[1] + 1, idx[2]>>
      [] side = "Down" -> <<idx[1], idx[2] - 1>>
      [] OTHER -> <<idx[1], idx[2] + 1>>

\* Element k of the line of nodes of a layer at the given distance from the
\* given side (0: the border line itself).
LineAt(data, layer, side, dist, k) ==
    LET Sx == getLayerSize(layer).x
        Sy == getLayerSize(layer).y
    IN  CASE side = "Left" -> data[<<dist, k>>]
          [] side = "Right" -> data[<<Sx - 1 - dist, k>>]
          [] side = "Down" -> data[<<k, dist>>]
          [] OTHER -> data[<<k, Sy - 1 - dist>>]

StripLen(layer, side) ==
    IF side \in {"Left", "Right"} THEN getLayerSize(layer).y ELSE getLayerSize(layer).x

\* The halo of the extended matrix `field` of idx agrees with the grid: on a
\* side with a neighbour, the border line of the neighbour that faces idx
\* (at the layer of idx); on an outer side, zero if zero_outer, else the
\* second line of the interior of idx.
HaloAgrees(field, grid, idx, zero_outer) ==
    LET layer == grid[idx].active
    IN  \A side \in Sides : \A k \in 0 .. StripLen(layer, side) - 1 :
            HaloAt(field, layer, side, k) =
                IF side \notin OuterSides(idx)
                THEN LineAt(grid[PeerOf(idx, side)].data[layer], layer,
                            Facing[side], 0, k)
                ELSE IF zero_outer THEN 0
                ELSE LineAt(grid[idx].data[layer], layer, side, 1, k)

\* The matrices assembled in the current step: by the tasks still to run and,
\* kept in the context, by the tasks without sensors that have run.
HaloContent(zero_outer) ==
    phase = "update" =>
        \A idx \in Idx :
            /\ idx \notin done =>
                  HaloAgrees(MatrixFromAllscale(state_field, idx), state_field,
                             idx, zero_outer)
            /\ (idx \in done /\ ~HasSensors(idx)) =>
                  HaloAgrees(contexts[idx].tmp_field, state_field, idx, zero_outer)

\* C11 (as stated): each halo strip equals the facing border strip of the
\* neighbour in the start-of-step grid, and a strip of zeros on an outer side.
C11_HaloZeroOnOuter == HaloContent(TRUE)

\* C11 (amended): each halo strip equals the facing border strip of the
\* neighbour in the start-of-step grid (at the layer of the reader), and on
\* an outer side the second line of the sub-domain's own interior.
C11_HaloContent == HaloContent(FALSE)

\* A task without sensors has assembled a matrix with a non-zero halo element
\* on an outer side and a non-zero halo element taken from a neighbour.
C11_Witness ==
    /\ phase = "update"
    /\ \E idx \in done :
          /\ ~HasSensors(idx)
          /\ \E side \in OuterSides(idx) : \E k \in 0 .. StripLen(LayerLow, side) - 1 :
                HaloAt(contexts[idx].tmp_field, LayerLow, side, k) # 0
          /\ \E side \in Sides \ OuterSides(idx) :
                \E k \in 0 .. StripLen(LayerLow, side) - 1 :
                    HaloAt(contexts[idx].tmp_field, LayerLow, side, k) # 0

\* C12. A configured subdomain_x or subdomain_y that differs from the
\* compiled sub-domain size stops the program inside InitDependentParams:
\* no sensor or observation file has been loaded, no context or field grid
\* is allocated, the result file does not exist and no step has run.
SizeMismatch ==
    \/ raw_conf.subdomain_x # FineSize.x
    \/ raw_conf.subdomain_y # FineSize.y

C12_MismatchIsFatal ==
    SizeMismatch =>
        /\ pc \in {"start", "init_params", "failed"}
        /\ effects \subseteq {"config_read"}
        /\ sensors = NotAllocated /\ observations = NotAllocated
        /\ contexts = NotAllocated
        /\ state_field = NotAllocated /\ temp_field = NotAllocated
        /\ ~stream_open /\ out = EmptyBag
        /\ t = 0 /\ calls = NotAllocated /\ phase = "startup"

C12_Witness ==
    /\ pc = "failed"
    /\ raw_conf.subdomain_x = FineSize.x
    /\ raw_conf.subdomain_y # FineSize.y
    /\ raw_conf.integers
    /\ raw_conf.diffusion_coef > 0
    /\ raw_conf.domain_size > 0

\* C18. integration_nsteps is a lower bound on the number of time steps: once
\* InitDependentParams has accepted a configuration, the stored dt is at most
\* integration_period / integration_nsteps and the stored Nt is at least
\* integration_nsteps.
ParamsStored == pc \in {"load_sensors", "load_measurements", "run", "running"}

C18_NstepsLowerBound ==
    ParamsStored =>
        /\ RatLeq(params.dt, <<raw_conf.integration_period, raw_conf.integration_nsteps>>)
        /\ params.Nt >= raw_conf.integration_nsteps

\* C13. ReadAnalyticSolution accepts a file exactly when its headers are
\* 0, 1, ..., Nt - 1 in this order and every step lists all nodes as triples
\* with x outer and y inner; any other file is a fatal error; and no value
\* is ever stored at a time index outside [0, Nt).
C13_AcceptsOnlyWellFormed == loader.status = "accepted" => loader.wellformed

C13_AcceptsWellFormed == loader.status = "failed" => ~loader.wellformed

C13_StoresInRange == \A e \in loader.stored : e[3] \in 0 .. loader.Nt - 1

C13_LoaderValidation ==
    /\ C13_AcceptsOnlyWellFormed
    /\ C13_AcceptsWellFormed
    /\ C13_StoresInRange

\* C14. After every PropagateStateInverse and every SolveFilter the
\* covariance P is symmetric: Symmetrize has set both off-diagonal entries
\* of the result to their mean and has left the diagonal alone, and applying
\* Symmetrize once more changes nothing.
SameFraction(M, N) ==
    \A i \in 1 .. Len(M.num) : \A j \in 1 .. Len(M.num[1]) :
        M.num[i][j] * N.den = N.num[i][j] * M.den

C14_CovarianceSymmetric ==
    kf.status = "run" /\ kf.last \in {"propagate", "solve"} =>
        /\ \A i, j \in 1 .. Len(kf.P.num) : kf.P.num[i][j] = kf.P.num[j][i]
        /\ \A i, j \in 1 .. Len(kf.P.num) :
              2 * kf.P.num[i][j] * kf.raw.den = (kf.raw.num[i][j] + kf.raw.num[j][i]) * kf.P.den
        /\ \A i \in 1 .. Len(kf.P.num) : kf.P.num[i][i] * kf.raw.den = kf.raw.num[i][i] * kf.P.den
        /\ SameFraction(Symmetrize(kf.P), kf.P)

C14_Witness ==
    /\ kf.status = "run" /\ kf.last = "solve" /\ kf.ops >= 2
    /\ kf.raw.num[1][2] # kf.raw.num[2][1]
    /\ kf.P.num[1][2] # 0

\* C15. The covariances do not depend on the data: a filter run from any
\* state x on any observations z has, after every operation, the covariance
\* of the reference run (x = 0, z = 0) with the same A, Q, H, R, P0. With
\* A = Q = H = R = P0 = I and exact arithmetic, P after k calls of Iterate is
\* p_k * I with p_0 = 1 and p' = (p + 1) / (p + 2), and the mean of p_1 ..
\* p_5000 has a square root within 1e-5 of 0.786159.
RECURSIVE PTest(_)
PTest(k) == IF k = 0 THEN <<1, 1>> ELSE <<PTest(k - 1)[1] + PTest(k - 1)[2], PTest(k - 1)[1] + 2 * PTest(k - 1)[2]>>

\* Millionths above 0.618: the terms p_1 .. p_8 rounded down (up), and for
\* each later term 1 / (1 + p_7) < p_k <= p_8. The mean m of 5000 terms has
\* |sqrt(m) - 0.786159| <= 1e-5 when 5000 * (m - 0.618) lies between
\* 151252 and 308483 millionths (0.786149^2 = 0.61803025.., 0.786169^2 =
\* 0.61806169..).
TestDeviationHolds ==
    LET Down(k) == ((PTest(k)[1] * 1000000) \div PTest(k)[2]) - 618000
        RECURSIVE Head8(_)
        Head8(k) == IF k = 0 THEN 0 ELSE Down(k) + Head8(k - 1)
        tail_lo == ((PTest(7)[2] * 1000000) \div (PTest(7)[1] + PTest(7)[2])) - 618000
        tail_hi == Down(8) + 1
    IN  /\ Head8(8) + (5000 - 8) * tail_lo >= 151252
        /\ Head8(8) + 8 + (5000 - 8) * tail_hi <= 308483
        /\ \A k \in 1 .. 8 : PTest(k)[1] * PTest(k - 1)[2] < PTest(k - 1)[1] * PTest(k)[2]

IsTestFilter == kf.sc.A = kf.sc.P0 /\ kf.sc.H = kf.sc.P0 /\ kf.sc.R = kf.sc.P0 /\ kf.sc.Q = kf.sc.P0

C15_CovarianceIgnoresData ==
    kf.status = "run" =>
        /\ kf.P = kf.ref.P
        /\ IsTestFilter /\ kf.exact /\ kf.iters = kf.ops =>
              /\ \A i, j \in 1 .. Len(kf.P.num) :
                    kf.P.num[i][j] * PTest(kf.ops)[2] = (IF i = j THEN PTest(kf.ops)[1] ELSE 0) * kf.P.den
              /\ TestDeviationHolds

C15_Witness ==
    /\ kf.status = "run" /\ IsTestFilter /\ kf.exact
    /\ kf.iters = 3 /\ kf.ops = 3
    /\ kf.x # kf.ref.x
    /\ kf.P.num[1][1] = 13 /\ kf.P.den = 21

\* C16. After k passes the state propagated with the matrix of
\* MakeModelMatrix equals the state propagated by
\* EulerFiniteDifferenceDirect at every node, interior, edge and corner, for
\* every grid size from 3 x 3 on, and MakeModelMatrix has produced exactly
\* 5 * SizeX * SizeY triplets.
C16_ModelMatrixEquivalence ==
    euler.status = "run" =>
        /\ \A n \in DOMAIN euler.state2 :
              euler.state[n[1] * euler.SizeY + n[2] + 1][1] = euler.state2[n]
        /\ euler.iterNo > 0 => euler.count = 5 * euler.SizeX * euler.SizeY

C16_Witness ==
    /\ euler.status = "run" /\ euler.iterNo = EulerMaxIter
    /\ euler.SizeX = 3 /\ euler.SizeY = 4 /\ euler.ax # 0 /\ euler.ay # 0
    /\ euler.state2[<<0, 0>>] # 0 /\ euler.state2[<<0, 1>>] # 0 /\ euler.state2[<<1, 1>>] # 0
    /\ euler.state2[<<2, 3>>] # euler.state2[<<0, 0>>]

\* C17. After SchwarzUpdate on a sub-domain, on every side marked inflow
\* the border strip of the sub-domain equals, element for element, the
\* facing border strip of the neighbour on that side.
C17_SchwarzHaloConsistency ==
    schwarz.status = "run" =>
        \A idx \in schwarz.updated : \A side \in Sides :
            schwarz.border[idx].inflow[side] =>
                getBoundary(schwarz.next_domain[idx], LayerFine, side)
                  = getBoundary(schwarz.curr_domain[PeerOf(idx, side)], LayerFine, Facing[side])

\* The same with a single inflow side, as in the example with flow (+1, 0).
C17_SingleInflowSide ==
    schwarz.status = "run" =>
        \A idx \in schwarz.updated : \A side \in Sides :
            /\ schwarz.border[idx].inflow[side]
            /\ \A other \in Sides \ {side} : ~schwarz.border[idx].inflow[other]
            => getBoundary(schwarz.next_domain[idx], LayerFine, side)
                 = getBoundary(schwarz.curr_domain[PeerOf(idx, side)], LayerFine, Facing[side])

\* The Kalman routine has just run on idx in this step.
KalmanUpdateOf(idx) ==
    /\ phase = "update" /\ idx \notin done /\ idx \in done'
    /\ contexts[idx].Nsensors > 0

\* What one call of the Kalman routine on idx does at sub-iteration 0 and at
\* the other sub-iterations.
KalmanScheduleStep(idx) ==
    LET old == contexts[idx]
        new == contexts'[idx]
        sub == t % conf.Nschwarz
        t_step == t \div conf.Nschwarz
        sz == getLayerSize(LayerFine)
        Posterior(P) == SolveFilter(old.field, P, old.H, new.R, new.z, sz).P
    IN  /\ calls'[idx].kalman = calls[idx].kalman + 1
        /\ IF sub = 0
           THEN /\ new.z = GetObservations(observations[idx], t_step, Len(sensors[idx]))
                /\ new.Q = ComputeQ(conf, idx, t_step)
                /\ new.R = ComputeR(conf, idx, t_step)
                /\ new.B = InverseModelMatrix(conf, Flow(conf, t_step), sz, 0)
                /\ calls'[idx].prior = calls[idx].prior + 1
                /\ new.P = Posterior(PropagateStateInverse(old.field, old.P, new.B, new.Q).P)
           ELSE /\ new.z = old.z /\ new.Q = old.Q /\ new.R = old.R /\ new.B = old.B
                /\ calls'[idx].prior = calls[idx].prior
                /\ new.P = Posterior(old.P)

\* Number of logical steps below n whose sub-iteration is 0.
PriorStepsBelow(n) == Cardinality({k \in 0 .. n - 1 : k % conf.Nschwarz = 0})

\* C19. On a sub-domain with sensors z is loaded, Q and R are redrawn, B is
\* rebuilt and PropagateStateInverse is run exactly in the logical steps
\* with sub-iteration 0 (Nt times per run); SolveFilter runs in every
\* logical step (Nt * Nschwarz times); at the other sub-iterations z, Q, R
\* and B keep their values.
C19_KalmanSchedule ==
    /\ [][\A idx \in Idx : KalmanUpdateOf(idx) => KalmanScheduleStep(idx)]_vars
    /\ [](phase \in {"update", "observe", "closing", "done"} =>
            \A idx \in Idx : HasSensors(idx) =>
                LET n == IF phase = "observe" \/ (phase = "update" /\ idx \in done)
                         THEN t + 1 ELSE t
                IN  /\ calls[idx].kalman = n
                    /\ calls[idx].prior = PriorStepsBelow(n)
                    /\ (phase \in {"closing", "done"} =>
                          /\ calls[idx].kalman = conf.Nt * conf.Nschwarz
                          /\ calls[idx].prior = conf.Nt))

C19_Witness ==
    /\ phase = "closing"
    /\ conf.Nschwarz = 2
    /\ \E idx \in Idx :
          /\ HasSensors(idx)
          /\ calls[idx].prior = conf.Nt
          /\ calls[idx].kalman = 2 * conf.Nt
          /\ contexts[idx].z = GetObservations(observations[idx], conf.Nt - 1, Len(sensors[idx]))

\* The outer side strips of the prior field handed to SolveFilter.
PriorOuterStripsZero(idx) ==
    LET sz == getLayerSize(LayerFine)
        f == calls[idx].prior_x
    IN  \A p \in DOMAIN f :
            /\ p[1] \in 1 .. sz.x /\ p[2] \in 1 .. sz.y
            /\ \/ "Left" \in OuterSides(idx) /\ p[1] = 1
               \/ "Right" \in OuterSides(idx) /\ p[1] = sz.x
               \/ "Down" \in OuterSides(idx) /\ p[2] = 1
               \/ "Up" \in OuterSides(idx) /\ p[2] = sz.y
            => f[p] = 0

\* The result of a routine call: outer strips zero and no negative node.
PosteriorClamped(idx) ==
    LET cell == stencil_buf[idx]
        layer == IF HasSensors(idx) THEN LayerFine ELSE LayerLow
    IN  /\ \A side \in OuterSides(idx) :
              \A k \in DOMAIN getBoundary(cell, layer, side) :
                  getBoundary(cell, layer, side)[k] = 0
        /\ \A p \in Nodes(layer) : cell.data[layer][p] >= 0

\* C20. Within a step of an outer sub-domain the outer side strips are set
\* to zero after the prior update and again after the posterior update, and
\* the non-negativity clamp follows the last Dirichlet clamp.
C20_ClampOrdering ==
    phase = "update" =>
        \A idx \in done :
            /\ PosteriorClamped(idx)
            /\ calls[idx].prior_x # << >> => PriorOuterStripsZero(idx)

\* The part of C20 about the end of the step.
C20_ClampAfterPosterior ==
    phase = "update" => \A idx \in done : PosteriorClamped(idx)

\* The routine without sensors has just run on idx in this step.
NoSensorsUpdateOf(idx) ==
    /\ phase = "update" /\ idx \notin done /\ idx \in done'
    /\ contexts[idx].Nsensors = 0

\* The field of idx after the LU solve with the B of this step, written back
\* to next_state (active layer LayerLow).
NoSensorsSolved(idx) ==
    LET sz == getLayerSize(LayerLow)
        B == InverseModelMatrix(conf, Flow(conf, t \div conf.Nschwarz), sz, conf.Nschwarz)
        ns0 == [temp_field EXCEPT ![idx] = setActiveLayer(temp_field[idx], LayerLow)]
    IN  [ns0 EXCEPT ![idx] =
            AllscaleFromMatrix(ns0[idx], LUSolve(B, MatrixFromAllscale(state_field, idx)))]

\* Outer clamp, non-negativity clamp and refresh of the fine layer.
NoSensorsFinish(ns, idx) ==
    RefreshFine(ClampNonNegative(ApplyBoundaryCondition(ns, idx)[idx]))

KalmanStateUntouched(idx) ==
    /\ contexts'[idx].P = contexts[idx].P
    /\ contexts'[idx].Q = contexts[idx].Q
    /\ contexts'[idx].R = contexts[idx].R
    /\ contexts'[idx].H = contexts[idx].H
    /\ contexts'[idx].z = contexts[idx].z

SchwarzUpdateOf(idx) ==
    schwarz.status = "run" /\ idx \notin schwarz.updated /\ idx \in schwarz'.updated

\* outer[s] and inflow[s] as the rule states them.
InflowFlagsByRule(idx) ==
    \A s \in Sides :
        LET n == CASE s = "Left" -> <<0 - 1, 0>> [] s = "Right" -> <<1, 0>>
                   [] s = "Down" -> <<0, 0 - 1>> [] OTHER -> <<0, 1>>
            b == schwarz'.border[idx]
        IN  /\ b.outer[s] = (s \in OuterSides(idx))
            /\ b.inflow[s] = (s \notin OuterSides(idx)
                              /\ n[1] * schwarz.flow[1] + n[2] * schwarz.flow[2] < 0)

\* C22 as stated. After SchwarzUpdate on idx, outer[s] holds iff idx lies on
\* that outer face, inflow[s] holds iff s is not outer and normal . flow < 0,
\* and the strip of every side that is not inflow is unmodified.
C22_InflowRuleStripsUnmodified ==
    [][\A idx \in Idx : SchwarzUpdateOf(idx) =>
          /\ InflowFlagsByRule(idx)
          /\ \A s \in Sides : ~schwarz'.border[idx].inflow[s] =>
                getBoundary(schwarz'.next_domain[idx], LayerFine, s)
                   = getBoundary(schwarz.next_domain[idx], LayerFine, s)]_vars

\* Node p of the fine layer lies on the border line of side s.
OnSideLine(p, s) ==
    LET sz == getLayerSize(LayerFine)
    IN  \/ s = "Left" /\ p[1] = 0
        \/ s = "Right" /\ p[1] = sz.x - 1
        \/ s = "Down" /\ p[2] = 0
        \/ s = "Up" /\ p[2] = sz.y - 1

\* The part of C22 that holds: the flags are as stated and SchwarzUpdate
\* writes only the strips of the inflow sides, so every node that lies on no
\* inflow side keeps its value and the strip of a side that is not inflow
\* changes at most at a corner node it shares with an inflow side.
C22_InflowRuleOffCorners ==
    [][\A idx \in Idx : SchwarzUpdateOf(idx) =>
          /\ InflowFlagsByRule(idx)
          /\ \A p \in Nodes(LayerFine) :
                (\A s \in Sides : schwarz'.border[idx].inflow[s] => ~OnSideLine(p, s))
                => schwarz'.next_domain[idx].data[LayerFine][p]
                      = schwarz.next_domain[idx].data[LayerFine][p]
          /\ \A s \in Sides : ~schwarz'.border[idx].inflow[s] =>
                \A k \in DOMAIN getBoundary(schwarz.next_domain[idx], LayerFine, s) :
                    \/ getBoundary(schwarz'.next_domain[idx], LayerFine, s)[k]
                          = getBoundary(schwarz.next_domain[idx], LayerFine, s)[k]
                    \/ k \in {0, Cardinality(DOMAIN getBoundary(schwarz.next_domain[idx], LayerFine, s)) - 1}
          /\ \A j \in Idx \ {idx} : schwarz'.next_domain[j] = schwarz.next_domain[j]]_vars

\* A sub-domain updated under a flow parallel to one of its inner faces and
\* entering through another, and one with an outflow face.
C22_Witness ==
    /\ schwarz.status = "run"
    /\ schwarz.flow = <<1, 0>>
    /\ \E idx \in schwarz.updated :
          /\ schwarz.border[idx].inflow["Left"]
          /\ ~schwarz.border[idx].inflow["Down"] /\ ~schwarz.border[idx].outer["Down"]
    /\ \E idx \in schwarz.updated :
          ~schwarz.border[idx].inflow["Right"] /\ ~schwarz.border[idx].outer["Right"]

\* The non-active layer of a cell is the image of its active layer.
LayersConsistent(cell) ==
    IF cell.active = LayerFine
    THEN cell.data[LayerLow] = coarsen(cell).data[LayerLow]
    ELSE cell.data[LayerFine] = refine(cell).data[LayerFine]

\* C23. At every step boundary the non-active layer of every sub-domain is
\* the image of its active layer under coarsen (fine sub-domains) or refine
\* (coarse sub-domains), taken after both clamps of the step: it is never
\* stale with respect to the latest update of the sub-domain.
C23_LayerConsistency ==
    phase \in {"update", "observe", "closing", "done"} =>
        \A idx \in Idx :
            /\ LayersConsistent(state_field[idx])
            /\ state_field[idx].active = (IF HasSensors(idx) THEN LayerFine ELSE LayerLow)
            /\ (phase = "update" /\ idx \in done) =>
                  LayersConsistent(stencil_buf[idx]) /\ PosteriorClamped(idx)

C23_Witness ==
    /\ phase = "update" /\ done = {} /\ t >= 1
    /\ \E idx \in Idx :
          /\ state_field[idx].active = LayerFine
          /\ \E p \in Nodes(LayerLow) : state_field[idx].data[LayerLow][p] # 0
    /\ \E idx \in Idx :
          /\ state_field[idx].active = LayerLow
          /\ \E p \in Nodes(LayerFine) : state_field[idx].data[LayerFine][p] # 0

CornersZero(field, layer) ==
    \A p \in {0, getLayerSize(layer).x + 1} \X {0, getLayerSize(layer).y + 1} : field[p] = 0

\* Corners after halo assembly and after the prior update (PropagateStateInverse
\* in the Kalman routine, the LU solve in the routine without sensors).
CornersZeroBeforePosterior ==
    phase = "update" =>
        \A idx \in Idx :
            LET layer == state_field[idx].active
            IN  /\ CornersZero(MatrixFromAllscale(state_field, idx), layer)
                /\ (idx \in done /\ ~HasSensors(idx)) =>
                      /\ CornersZero(contexts[idx].tmp_field, layer)
                      /\ CornersZero(contexts[idx].field, layer)
                /\ (idx \in done /\ calls[idx].prior_x # << >>) =>
                      CornersZero(calls[idx].prior_x, layer)

\* C25 as stated. The four corner entries of the extended working matrix
\* are zero at every point of a step: after halo assembly, after the prior
\* update and after the posterior update (SolveFilter).
C25_CornersAlwaysZero ==
    /\ CornersZeroBeforePosterior
    /\ phase = "update" =>
          \A idx \in done : HasSensors(idx) => CornersZero(contexts[idx].field, LayerFine)

\* C25 (amended). The corner entries are zero after halo assembly and after
\* the prior update; the posterior update may change them, and only the
\* interior of the matrix is written back to the grid.
C25_CornersZeroUntilPosterior ==
    /\ CornersZeroBeforePosterior
    /\ phase = "update" =>
          \A idx \in done : HasSensors(idx) =>
              \A p \in Nodes(LayerFine) :
                  contexts[idx].field[<<p[1] + 1, p[2] + 1>>] < 0
                  \/ stencil_buf[idx].data[LayerFine][p]
                        \in {0, contexts[idx].field[<<p[1] + 1, p[2] + 1>>]}

\* A Kalman step whose prior field is non-zero with zero corners and whose
\* posterior field has a non-zero corner.
C25_Witness ==
    /\ phase = "update"
    /\ \E idx \in done :
          /\ HasSensors(idx)
          /\ calls[idx].prior_x # << >>
          /\ \E p \in DOMAIN calls[idx].prior_x : calls[idx].prior_x[p] # 0
          /\ CornersZero(calls[idx].prior_x, LayerFine)
          /\ ~CornersZero(contexts[idx].field, LayerFine)

\* H is the observation operator of the sensor list sens on a layer of the
\* given size: one row per sensor, (Sx+2)*(Sy+2) columns, a single 1 per row
\* at flat index (x_k+1)*(Sy+2) + (y_k+1), an interior cell of the extended
\* matrix.
IsObservationOperator(H, sens, sz) ==
    /\ Len(H) = Len(sens)
    /\ \A k \in 1 .. Len(sens) :
          LET at == (sens[k][1] + 1) * (sz.y + 2) + (sens[k][2] + 1)
          IN  /\ DOMAIN H[k] = 0 .. (sz.x + 2) * (sz.y + 2) - 1
              /\ {c \in DOMAIN H[k] : H[k][c] = 1} = {at}
              /\ \A c \in DOMAIN H[k] \ {at} : H[k][c] = 0
              /\ at \div (sz.y + 2) \in 1 .. sz.x
              /\ at % (sz.y + 2) \in 1 .. sz.y

\* C26. For a sub-domain with m > 0 sensors H has m rows and (Sx+2)*(Sy+2)
\* columns, row k has exactly one 1, at flat index (x_k+1)*(Sy+2) + (y_k+1),
\* an interior cell whenever the sensor lies inside the sub-domain; for
\* m = 0 H is empty and SolveFilter is never run on the sub-domain.
C26_ObservationOperator ==
    /\ phase \in {"update", "observe", "closing", "done"} =>
          \A idx \in Idx :
              IF Len(sensors[idx]) > 0
              THEN IsObservationOperator(contexts[idx].H, sensors[idx], FineSize)
              ELSE contexts[idx].H = << >> /\ calls[idx].kalman = 0
    /\ (phase = "update" /\ t = 0 /\ done = {} /\ rng_seed = 0) =>
          \A a \in Nodes(LayerFine) :
              /\ IsObservationOperator(ComputeH(<<a>>, FineSize), <<a>>, FineSize)
              /\ \A b \in {<<0, 0>>, <<FineSize.x - 1, FineSize.y - 1>>} :
                    IsObservationOperator(ComputeH(<<a, b>>, FineSize), <<a, b>>, FineSize)

C26_Witness ==
    /\ phase = "update" /\ t >= 1
    /\ \E idx \in Idx :
          /\ Len(sensors[idx]) = 2
          /\ calls[idx].kalman > 0
          /\ contexts[idx].H[2][sub2ind(3, 2, FineSize)] = 1
    /\ \E idx \in Idx :
          Len(sensors[idx]) = 0 /\ contexts[idx].H = << >> /\ calls[idx].nosensors > 0

\* C27. For every accepted configuration, every flow with |vx| <= |max_vx|
\* and |vy| <= |max_vy| and every dt divisor, each interior row of the
\* matrix of InverseModelMatrix is strictly diagonally dominant:
\* 1 + 2 (rho_x + rho_y) > |-a_x - rho_x| + |a_x - rho_x| + |-a_y - rho_y|
\* + |a_y - rho_y|. The halo rows are rows of the identity.
C27_DiagonalDominance ==
    bmatrix.status = "built" =>
        LET r == bmatrix.row
            off == RatAdd(RatAdd(RatAbs(r.west), RatAbs(r.east)),
                          RatAdd(RatAbs(r.south), RatAbs(r.north)))
        IN  /\ r.diag[2] > 0 /\ off[2] > 0
            /\ ~RatLeq(r.diag, off)
            /\ RatLeq(<<1, 1>>, r.diag) /\ ~RatLeq(r.diag, <<1, 1>>)

\* An advection-dominated row (|a_x| > rho_x) built with a divisor and a
\* flow at its maximum.
C27_Witness ==
    /\ bmatrix.status = "built"
    /\ bmatrix.dt_divisor >= 2
    /\ bmatrix.flow[1] = bmatrix.max_vx /\ bmatrix.max_vx[1] # 0
    /\ bmatrix.row.east[1] > 0


\* C28: with Nt >= 2 and Nwrite >= 2 the time filter, in size_t arithmetic
\* with t - 1 wrapping around at t = 0, selects t_step = 0 and t_step = Nt - 1,
\* and its divisor Nt - 1 is not zero: once the first slice has been filtered
\* index 0 is written, and a complete run has written index Nt - 1.
C28_FirstAndLastWritten ==
    (conf.Nt >= 2 /\ conf.Nwrite >= 2) =>
        /\ conf.Nt - 1 # 0
        /\ TimeFilter(conf.Nschwarz, conf.Nwrite, conf.Nt, 0)
        /\ TimeFilter(conf.Nschwarz, conf.Nwrite, conf.Nt,
                      (conf.Nt - 1) * conf.Nschwarz)
        /\ t > 0 => 0 \in written
        /\ phase \in {"closing", "done"} => conf.Nt - 1 \in written

\* A finished run with sub-iterations and two requested fields over at least
\* three time steps wrote exactly the first and the last index.
C28_Witness ==
    /\ phase = "done" /\ conf.Nschwarz >= 2
    /\ conf.Nwrite = 2 /\ conf.Nt >= 3
    /\ written = {0, conf.Nt - 1}

\* The routine of sub-domain idx has run SchwarzUpdate at the current logical
\* time.
SchwarzDone(idx) == schwarz.status = "run" /\ idx \in schwarz.updated

\* C29: within one logical step two adjacent sub-domains hand SchwarzUpdate
\* the same flow vector, that of t_step; at most one of them marks the shared
\* face as inflow, and exactly one does when the flow component normal to
\* the face is not zero.
C29_InflowAntisymmetry ==
    \A idx \in Idx : \A side \in Sides \ OuterSides(idx) :
        LET peer == PeerOf(idx, side)
            fresh == Flow_Table(schwarz.flows, schwarz.timestamp \div schwarz.Nschwarz)
            n == IF side \in {"Left", "Right"} THEN fresh[1] ELSE fresh[2]
            mine == schwarz.border[idx].inflow[side]
            theirs == schwarz.border[peer].inflow[Facing[side]]
        IN  /\ SchwarzDone(idx) => schwarz.ctx_flow[idx] = fresh
            /\ (SchwarzDone(idx) /\ SchwarzDone(peer)) =>
                  /\ schwarz.ctx_flow[idx] = schwarz.ctx_flow[peer]
                  /\ ~(mine /\ theirs)
                  /\ n # 0 => (mine # theirs)
                  /\ n = 0 => (~mine /\ ~theirs)

\* In a sub-iteration after the first of the second time step, whose flow
\* differs from that of the first, a sub-domain with sensors and its neighbour
\* without sensors have both been updated and only one has the inflow flag.
C29_Witness ==
    /\ schwarz.status = "run"
    /\ schwarz.timestamp \div schwarz.Nschwarz = 1
    /\ schwarz.timestamp % schwarz.Nschwarz # 0
    /\ schwarz.flows[0] # schwarz.flows[1]
    /\ \E idx \in schwarz.kalman : \E side \in Sides \ OuterSides(idx) :
          /\ PeerOf(idx, side) \notin schwarz.kalman
          /\ SchwarzDone(idx) /\ SchwarzDone(PeerOf(idx, side))
          /\ schwarz.border[idx].inflow[side]
          /\ ~schwarz.border[PeerOf(idx, side)].inflow[Facing[side]]

\* Row and column indices of a measurement matrix.
ObsRows(obs) == {e[1] : e \in DOMAIN obs}
ObsCols(obs) == {e[2] : e \in DOMAIN obs}

\* C30: in every invocation of a per-subdomain routine timestamp is below
\* Nt * Nschwarz, t_discrete = timestamp / Nschwarz lies in [0, Nt) and
\* sub_iter = timestamp mod Nschwarz in [0, Nschwarz); the row GetObservations
\* reads from the Nt-row measurement matrix is in range and z has as many
\* entries as the subdomain has sensors.
C30_ScheduleIndexRanges ==
    /\ phase # "aborted"
    /\ \A idx \in Idx :
          LET ctx == contexts[idx]
              t_discrete == t \div ctx.Nschwarz
              sub_iter == t % ctx.Nschwarz
              n == Len(sensors[idx])
          IN  /\ phase = "update" =>
                    /\ t < ctx.Nt * ctx.Nschwarz
                    /\ t_discrete \in 0 .. ctx.Nt - 1
                    /\ sub_iter \in 0 .. ctx.Nschwarz - 1
                    /\ n > 0 =>
                          /\ ObsRows(observations[idx]) = 0 .. ctx.Nt - 1
                          /\ ObsCols(observations[idx]) = 1 .. n
                          /\ \A i \in 1 .. n : <<t_discrete, i>> \in DOMAIN observations[idx]
              /\ Len(ctx.z) = n /\ ctx.Nsensors = n
              /\ (phase = "update" /\ idx \in done /\ n > 0) =>
                    ctx.z = GetObservations(observations[idx], t_discrete, n)

\* The routine of a sub-domain with sensors has run at the last logical time
\* of a run with sub-iterations, and its z is the last row of its matrix.
C30_Witness ==
    /\ phase = "update" /\ conf.Nschwarz >= 2
    /\ t = conf.Nt * conf.Nschwarz - 1
    /\ \E idx \in done :
          /\ HasSensors(idx) /\ stamp[idx] = t
          /\ contexts[idx].z = GetObservations(observations[idx], conf.Nt - 1, Len(sensors[idx]))
          /\ Len(contexts[idx].z) > 0
====
